---------------------------- MODULE Spec2Model ----------------------------
(***************************************************************************)
(* A model of rtsf/p_testcase.py: the token scanner, the call parser, the  *)
(* evaluation engine (TestCaseParser) and the case loader (YamlCaseLoader).*)
(*                                                                         *)
(* Python values are tagged records [k |-> kind, v |-> payload]:           *)
(*   str   a sequence of one-character strings                             *)
(*   int   an integer            bool  a boolean         none  None        *)
(*   list  a sequence of values                                            *)
(*   dict  a sequence of <<key, value>> pairs, keys unique, in insertion   *)
(*         order (the order dict iteration follows)                        *)
(***************************************************************************)
EXTENDS Integers, Sequences, FiniteSets, TLC

S(s) == [k |-> "str", v |-> s]
I(n) == [k |-> "int", v |-> n]
B(b) == [k |-> "bool", v |-> b]
L(s) == [k |-> "list", v |-> s]
D(s) == [k |-> "dict", v |-> s]
None == [k |-> "none", v |-> 0]

IsStr(x) == x.k = "str"

(***************************************************************************)
(* Character classes of the three regular expressions (lines 30-32).       *)
(***************************************************************************)
DigitChars == <<"0", "1", "2", "3", "4", "5", "6", "7", "8", "9">>

WordChars ==
    { "a", "b", "c", "d", "e", "f", "g", "h", "i", "j", "k", "l", "m",
      "n", "o", "p", "q", "r", "s", "t", "u", "v", "w", "x", "y", "z",
      "A", "B", "C", "D", "E", "F", "G", "H", "I", "J", "K", "L", "M",
      "N", "O", "P", "Q", "R", "S", "T", "U", "V", "W", "X", "Y", "Z",
      "_" } \cup { DigitChars[i] : i \in 1..10 }

FuncArgChars == WordChars \cup { "$", ".", "-", " ", "=", "," }

(***************************************************************************)
(* Helpers on character sequences.                                         *)
(***************************************************************************)
Sub(s, i, j) == IF j < i THEN << >> ELSE SubSeq(s, i, j)

StartsAt(s, i, t) ==
    /\ i + Len(t) - 1 <= Len(s)
    /\ \A n \in 1..Len(t) : s[i + n - 1] = t[n]

\* the last index of the longest run of characters of class cls starting at i
RunEnd(s, i, cls) ==
    IF i > Len(s) THEN i - 1
    ELSE CHOOSE j \in (i - 1)..Len(s) :
             /\ \A n \in i..j : s[n] \in cls
             /\ (j < Len(s) => s[j + 1] \notin cls)

\* str.find: the first index >= i where t occurs in s, 0 when there is none
FindFrom(s, t, i) ==
    IF \E p \in i..(Len(s) - Len(t) + 1) : StartsAt(s, p, t)
    THEN CHOOSE p \in i..(Len(s) - Len(t) + 1) :
             /\ StartsAt(s, p, t)
             /\ \A q \in i..(p - 1) : ~StartsAt(s, q, t)
    ELSE 0

\* str.replace(old, new, 1)
ReplaceFirst(s, old, new) ==
    LET p == FindFrom(s, old, 1)
    IN  IF p = 0 THEN s
        ELSE Sub(s, 1, p - 1) \o new \o Sub(s, p + Len(old), Len(s))

RECURSIVE ReplaceAllFrom(_, _, _, _)
\* s from index i on, every occurrence of old found from the left replaced
ReplaceAllFrom(s, old, new, i) ==
    IF FindFrom(s, old, i) = 0 THEN Sub(s, i, Len(s))
    ELSE Sub(s, i, FindFrom(s, old, i) - 1) \o new
         \o ReplaceAllFrom(s, old, new, FindFrom(s, old, i) + Len(old))

\* str.replace(old, new) for a non-empty old
ReplaceAll(s, old, new) == ReplaceAllFrom(s, old, new, 1)

\* str.split(c) for a one-character separator: the pieces between the
\* places of c, the two ends of s being places too
Split(s, c) ==
    LET cuts == { i \in 1..Len(s) : s[i] = c } \cup { 0, Len(s) + 1 }
        Cut(k) == CHOOSE i \in cuts : Cardinality({ j \in cuts : j < i }) = k
    IN  [ k \in 1..(Cardinality(cuts) - 1) |-> Sub(s, Cut(k - 1) + 1, Cut(k) - 1) ]

LStrip(s) == Sub(s, RunEnd(s, 1, { " " }) + 1, Len(s))

RStrip(s) ==
    IF \A i \in 1..Len(s) : s[i] = " " THEN << >>
    ELSE Sub(s, 1, CHOOSE i \in 1..Len(s) :
                       /\ s[i] # " "
                       /\ \A n \in (i + 1)..Len(s) : s[n] = " ")

\* str.strip()
Strip(s) == RStrip(LStrip(s))

RECURSIVE Concat(_)
Concat(ss) == IF ss = << >> THEN << >> ELSE Head(ss) \o Concat(Tail(ss))

(***************************************************************************)
(* Decimal numerals: int(s) and str(n).                                    *)
(***************************************************************************)
DigitVal(c) == CHOOSE d \in 0..9 : DigitChars[d + 1] = c

IsDigits(s) == s # << >> /\ \A i \in 1..Len(s) : \E d \in 1..10 : DigitChars[d] = s[i]

RECURSIVE StrToNat(_)
StrToNat(s) ==
    IF s = << >> THEN 0
    ELSE 10 * StrToNat(Sub(s, 1, Len(s) - 1)) + DigitVal(s[Len(s)])

RECURSIVE NatToStr(_)
NatToStr(n) ==
    IF n < 10 THEN << DigitChars[n + 1] >>
    ELSE NatToStr(n \div 10) \o << DigitChars[(n % 10) + 1] >>

IntToStr(n) == IF n < 0 THEN << "-" >> \o NatToStr(0 - n) ELSE NatToStr(n)

RECURSIVE PyRepr(_)
\* repr(x), for strings that hold no quote or backslash
PyRepr(x) ==
    CASE x.k = "str"  -> << "'" >> \o x.v \o << "'" >>
      [] x.k = "int"  -> IntToStr(x.v)
      [] x.k = "bool" -> IF x.v THEN << "T", "r", "u", "e" >>
                                ELSE << "F", "a", "l", "s", "e" >>
      [] x.k = "none" -> << "N", "o", "n", "e" >>
      [] x.k = "list" ->
            << "[" >>
            \o Concat([ i \in 1..Len(x.v) |->
                   (IF i > 1 THEN << ",", " " >> ELSE << >>) \o PyRepr(x.v[i]) ])
            \o << "]" >>
      [] x.k = "dict" ->
            << "{" >>
            \o Concat([ i \in 1..Len(x.v) |->
                   (IF i > 1 THEN << ",", " " >> ELSE << >>)
                   \o PyRepr(x.v[i][1]) \o << ":", " " >> \o PyRepr(x.v[i][2]) ])
            \o << "}" >>

\* str(x)
PyStr(x) == IF x.k = "str" THEN x.v ELSE PyRepr(x)

(***************************************************************************)
(* Content Scanner.                                                        *)
(***************************************************************************)
RECURSIVE ScanVariables(_, _)
\* the names after a "$" in s from index i on; d is the next "$"
ScanVariables(s, i) ==
    LET d == FindFrom(s, << "$" >>, i)
        j == RunEnd(s, d + 1, WordChars)
    IN  IF d = 0 THEN << >>
        ELSE IF j >= d + 1
        THEN << Sub(s, d + 1, j) >> \o ScanVariables(s, j + 1)
        ELSE ScanVariables(s, d + 1)

\* re.findall(variable_regexp, content); a non-string gives [] (TypeError)
extract_variables(content) ==
    IF IsStr(content) THEN ScanVariables(content.v, 1) ELSE << >>

RECURSIVE ScanFunctions(_, _)
\* the calls in s from index i on; d is the next "${"
ScanFunctions(s, i) ==
    LET d == FindFrom(s, << "$", "{" >>, i)
        j == RunEnd(s, d + 2, WordChars)       \* the name ends at j
        m == RunEnd(s, j + 2, FuncArgChars)    \* the arguments end at m
    IN  IF d = 0 THEN << >>
        ELSE IF /\ j >= d + 2
                /\ StartsAt(s, j + 1, << "(" >>)
                /\ StartsAt(s, m + 1, << ")", "}" >>)
        THEN << Sub(s, d + 2, m + 1) >> \o ScanFunctions(s, m + 3)
        ELSE ScanFunctions(s, d + 1)

\* re.findall(function_regexp, content); a non-string gives [] (TypeError)
extract_functions(content) ==
    IF IsStr(content) THEN ScanFunctions(content.v, 1) ELSE << >>

(***************************************************************************)
(* Call Parser.                                                            *)
(***************************************************************************)
\* ast.literal_eval on the strings the model's inputs hold: a decimal
\* integer (Python 3: no leading zero unless all digits are zero), with an
\* optional sign, True, False and None evaluate; everything else raises
\* ValueError or SyntaxError and stays the string.
IsIntLiteral(s) ==
    /\ IsDigits(s)
    /\ (s[1] = "0" => \A i \in 1..Len(s) : s[i] = "0")

parse_string_value(str_value) ==
    CASE IsIntLiteral(str_value) -> I(StrToNat(str_value))
      [] /\ str_value # << >>
         /\ Head(str_value) = "-"
         /\ IsIntLiteral(Tail(str_value)) -> I(0 - StrToNat(Tail(str_value)))
      [] str_value = << "T", "r", "u", "e" >>       -> B(TRUE)
      [] str_value = << "F", "a", "l", "s", "e" >>  -> B(FALSE)
      [] str_value = << "N", "o", "n", "e" >>       -> None
      [] OTHER -> S(str_value)

\* dict[key] = value: the key keeps its place when it is there already
DictSet(pairs, key, val) ==
    IF \E i \in 1..Len(pairs) : pairs[i][1] = key
    THEN [ i \in 1..Len(pairs) |->
             IF pairs[i][1] = key THEN << key, val >> ELSE pairs[i] ]
    ELSE Append(pairs, << key, val >>)

HasKey(pairs, key) == \E i \in 1..Len(pairs) : pairs[i][1] = key

\* dict.get(key): None when the key is absent
DictGet(pairs, key) ==
    IF HasKey(pairs, key)
    THEN pairs[CHOOSE i \in 1..Len(pairs) : pairs[i][1] = key][2]
    ELSE None

Count(s, c) == Cardinality({ i \in 1..Len(s) : s[i] = c })

RECURSIVE ParseArgs(_, _)
\* the loop of lines 111-116 over args_list, from the meta built so far
ParseArgs(args_list, meta) ==
    IF args_list = << >> \/ meta.exc # "none" THEN meta
    ELSE LET arg == Head(args_list)
             kv  == Split(arg, "=")
         IN  ParseArgs(Tail(args_list),
               IF Count(arg, "=") > 0
               THEN IF Len(kv) # 2
                    THEN [meta EXCEPT !.exc = "ValueError"]  \* unpacking fails
                    ELSE [meta EXCEPT !.kwargs =
                            DictSet(@, S(kv[1]), parse_string_value(kv[2]))]
               ELSE [meta EXCEPT !.args = Append(@, parse_string_value(arg))])

parse_function(content) ==
    LET j == RunEnd(content, 1, WordChars)
        m == RunEnd(content, j + 2, FuncArgChars)
        matched == /\ j >= 1
                   /\ StartsAt(content, j + 1, << "(" >>)
                   /\ StartsAt(content, m + 1, << ")" >>)
                   /\ m + 1 = Len(content)
        args_str == ReplaceAll(Sub(content, j + 2, m), << " " >>, << >>)
        meta == [exc |-> "none", func_name |-> Sub(content, 1, j),
                 args |-> << >>, kwargs |-> << >>]
    IN  IF ~matched
        THEN [exc |-> "FunctionNotFound", func_name |-> << >>,
              args |-> << >>, kwargs |-> << >>]
        ELSE IF args_str = << >> THEN meta
        ELSE ParseArgs(Split(args_str, ","), meta)

(***************************************************************************)
(* Evaluation Engine (class TestCaseParser).                               *)
(*                                                                         *)
(* An evaluation yields [val, exc, log]: the value, the exception raised   *)
(* (NoExc when none) and the trace of what the evaluation did, in order:   *)
(* one "lookup" entry per call of _get_bind_item (src: the binding table   *)
(* "bind", the configuration search "conf", or "missing") and one          *)
(* "replace" entry per substitution.  depth counts the enclosing function  *)
(* calls: 0 for the tokens of the content itself, 1 for the tokens in the  *)
(* arguments of one of its function tokens.                                *)
(***************************************************************************)
NoExc == [type |-> "none", kind |-> "", name |-> << >>]

Exc(type, kind, name) == [type |-> type, kind |-> kind, name |-> name]

Ok(val, log) == [val |-> val, exc |-> NoExc, log |-> log]

Fail(exc, log) == [val |-> None, exc |-> exc, log |-> log]

Event(ev, kind, name, src, depth) ==
    [ev |-> ev, kind |-> kind, name |-> name, src |-> src, depth |-> depth]

\* ModuleUtils.search_conf_item: the configuration found upward of
\* file_path holds the item, or the search fails with FunctionNotFound
search_conf_item(conf, file_path, item_type, item_name) ==
    LET items == IF item_type = "function" THEN conf.functions
                                            ELSE conf.variables
    IN  IF HasKey(items, S(item_name))
        THEN Ok(DictGet(items, S(item_name)), << >>)
        ELSE Fail(Exc("FunctionNotFound", item_type, item_name), << >>)

\* a variant of _get_bind_item that asks the configuration first
_get_bind_item_conf_first(self, conf, item_type, item_name, depth) ==
    LET ev(src) == << Event("lookup", item_type, item_name, src, depth) >>
        bound == CASE item_type = "function" -> self.functions
                   [] item_type = "variable" -> self.variables
                   [] OTHER -> << >>
        found == search_conf_item(conf, self.file_path, item_type, item_name)
    IN  IF item_type \notin {"function", "variable"}
        THEN Fail(Exc("ParamsError", item_type, << >>), << >>)
        ELSE IF self.file_path # None /\ found.exc.type # "FunctionNotFound"
        THEN [found EXCEPT !.log = ev("conf")]
        ELSE IF HasKey(bound, S(item_name))
        THEN Ok(DictGet(bound, S(item_name)), ev("bind"))
        ELSE Fail(Exc("ParamsError", item_type, item_name), ev("missing"))

_get_bind_item(self, conf, item_type, item_name, depth) ==
    LET ev(src) == << Event("lookup", item_type, item_name, src, depth) >>
        bound == CASE item_type = "function" -> self.functions
                   [] item_type = "variable" -> self.variables
                   [] OTHER -> << >>
        found == search_conf_item(conf, self.file_path, item_type, item_name)
    IN  IF item_type \notin {"function", "variable"}
        THEN Fail(Exc("ParamsError", item_type, << >>), << >>)
        ELSE IF HasKey(bound, S(item_name))
        THEN Ok(DictGet(bound, S(item_name)), ev("bind"))
        ELSE IF self.file_path = None       \* the assert fails
        THEN Fail(Exc("ParamsError", item_type, item_name), ev("missing"))
        ELSE IF found.exc.type = "FunctionNotFound"
        THEN Fail(Exc("ParamsError", item_type, item_name), ev("missing"))
        ELSE [found EXCEPT !.log = ev("conf")]

get_bind_variable(self, conf, variable_name, depth) ==
    _get_bind_item(self, conf, "variable", variable_name, depth)

get_bind_function(self, conf, func_name, depth) ==
    _get_bind_item(self, conf, "function", func_name, depth)

\* func(*args, **kwargs) for the callables of the model: "const" returns
\* val whatever it is given, "first" returns its first positional argument
py_call(func, args, kwargs) ==
    IF \E i \in 1..Len(kwargs) : ~IsStr(kwargs[i][1])
    THEN Fail(Exc("TypeError", "function", << >>), << >>)
    ELSE CASE func.fn = "const" -> Ok(func.val, << >>)
           [] func.fn = "first" ->
                IF args = << >>
                THEN Fail(Exc("TypeError", "function", << >>), << >>)
                ELSE Ok(args[1], << >>)

\* lines 289-304 and 314-324: the token is replaced by the value; the
\* content that is the token alone becomes the value itself
Replaced(content, token, value, log, kind, name, depth) ==
    IF S(token) = content
    THEN Ok(value, Append(log, Event("replace", kind, name, "", depth)))
    ELSE IF ~IsStr(content)          \* content.replace on a non-string
    THEN Fail(Exc("AttributeError", kind, name), log)
    ELSE Ok(S(ReplaceFirst(content.v, token, PyStr(value))),
            Append(log, Event("replace", kind, name, "", depth)))

\* lines 312-324, got being what get_bind_variable gave; st is [val, exc, log]
ReplaceVariable(st, variable_name, got, depth) ==
    IF got.exc # NoExc THEN Fail(got.exc, st.log \o got.log)
    ELSE Replaced(st.val, << "$" >> \o variable_name, got.val,
                  st.log \o got.log, "variable", variable_name, depth)

RECURSIVE _eval_content_variables_loop(_, _, _, _, _)
\* the loop of lines 311-324 over variables_list
_eval_content_variables_loop(self, conf, variables_list, st, depth) ==
    IF variables_list = << >> \/ st.exc # NoExc THEN st
    ELSE _eval_content_variables_loop(self, conf, Tail(variables_list),
             ReplaceVariable(st, Head(variables_list),
                 get_bind_variable(self, conf, Head(variables_list), depth),
                 depth),
             depth)

_eval_content_variables(self, conf, content, log, depth) ==
    _eval_content_variables_loop(self, conf, extract_variables(content),
                                 Ok(content, log), depth)

RECURSIVE eval_content_with_bind_actions(_, _, _, _)
RECURSIVE _eval_content_functions_loop(_, _, _, _, _)
RECURSIVE EvalItems(_, _, _, _, _)
RECURSIVE EvalPairs(_, _, _, _, _)

\* one item of the list of line 249; st.val is the list so far
EvalItem(st, r) ==
    IF r.exc # NoExc THEN Fail(r.exc, st.log \o r.log)
    ELSE Ok(L(Append(st.val.v, r.val)), st.log \o r.log)

\* [f(item) for item in content], left to right
EvalItems(self, conf, items, st, depth) ==
    IF items = << >> \/ st.exc # NoExc THEN st
    ELSE EvalItems(self, conf, Tail(items),
             EvalItem(st, eval_content_with_bind_actions(
                              self, conf, Head(items), depth)),
             depth)

\* lines 255-256: a list or a dict is no dictionary key
EvalValue(st, eval_key, r) ==
    IF r.exc # NoExc THEN Fail(r.exc, st.log \o r.log)
    ELSE IF eval_key.k \in {"list", "dict"}
    THEN Fail(Exc("TypeError", "", << >>), st.log \o r.log)
    ELSE Ok(D(DictSet(st.val.v, eval_key, r.val)), st.log \o r.log)

\* lines 254-256, r being the evaluated key
EvalKey(self, conf, st, r, value, depth) ==
    IF r.exc # NoExc THEN Fail(r.exc, st.log \o r.log)
    ELSE EvalValue([st EXCEPT !.log = @ \o r.log], r.val,
             eval_content_with_bind_actions(self, conf, value, depth))

\* the loop of lines 253-256
EvalPairs(self, conf, pairs, st, depth) ==
    IF pairs = << >> \/ st.exc # NoExc THEN st
    ELSE EvalPairs(self, conf, Tail(pairs),
             EvalKey(self, conf, st,
                 eval_content_with_bind_actions(self, conf, Head(pairs)[1], depth),
                 Head(pairs)[2], depth),
             depth)

\* lines 288-304, eval_value being what the call gave
ReplaceFunction(st, func_content, func_name, eval_value, depth) ==
    IF eval_value.exc # NoExc THEN Fail(eval_value.exc, st.log)
    ELSE Replaced(st.val, << "$", "{" >> \o func_content \o << "}" >>,
                  eval_value.val, st.log, "function", func_name, depth)

\* lines 285-304, func being what get_bind_function gave
CallFunction(st, func_content, func_name, args, kwargs, func, depth) ==
    IF func.exc # NoExc THEN Fail(func.exc, st.log \o func.log)
    ELSE ReplaceFunction([st EXCEPT !.log = @ \o func.log], func_content,
             func_name, py_call(func.val, args, kwargs), depth)

\* lines 283-286, kwargs being the evaluated keyword arguments
BindFunction(self, conf, st, func_content, func_name, args, kwargs, depth) ==
    IF kwargs.exc # NoExc THEN Fail(kwargs.exc, st.log \o kwargs.log)
    ELSE CallFunction([st EXCEPT !.log = @ \o kwargs.log], func_content,
             func_name, args, kwargs.val.v,
             get_bind_function(self, conf, func_name, depth), depth)

\* lines 282-286, args being the evaluated positional arguments
EvalKwargs(self, conf, st, func_content, function_meta, args, depth) ==
    IF args.exc # NoExc THEN Fail(args.exc, st.log \o args.log)
    ELSE BindFunction(self, conf, [st EXCEPT !.log = @ \o args.log],
             func_content, function_meta.func_name, args.val.v,
             eval_content_with_bind_actions(
                 self, conf, D(function_meta.kwargs), depth + 1),
             depth)

\* lines 277-283, function_meta being what parse_function gave
EvalArgs(self, conf, st, func_content, function_meta, depth) ==
    IF function_meta.exc # "none"
    THEN Fail(Exc(function_meta.exc, "function", func_content), st.log)
    ELSE EvalKwargs(self, conf, st, func_content, function_meta,
             eval_content_with_bind_actions(
                 self, conf, L(function_meta.args), depth + 1),
             depth)

\* the loop of lines 276-304 over functions_list; st is [val, exc, log]
_eval_content_functions_loop(self, conf, functions_list, st, depth) ==
    IF functions_list = << >> \/ st.exc # NoExc THEN st
    ELSE _eval_content_functions_loop(self, conf, Tail(functions_list),
             EvalArgs(self, conf, st, Head(functions_list),
                      parse_function(Head(functions_list)), depth),
             depth)

_eval_content_functions(self, conf, content, depth) ==
    _eval_content_functions_loop(self, conf, extract_functions(content),
                                 Ok(content, << >>), depth)

\* line 270, evaluated being what _eval_content_functions gave
EvalVariables(self, conf, evaluated, depth) ==
    IF evaluated.exc # NoExc THEN evaluated
    ELSE _eval_content_variables(self, conf, evaluated.val, evaluated.log, depth)

\* [r EXCEPT !.log = log \o @]
AfterLog(log, r) == [r EXCEPT !.log = log \o @]

\* a variant of EvalVariables for the other order: first the variables
EvalFunctionsAfter(self, conf, evaluated, depth) ==
    IF evaluated.exc # NoExc THEN evaluated
    ELSE AfterLog(evaluated.log,
                  _eval_content_functions(self, conf, evaluated.val, depth))

\* a variant of eval_string that replaces the variables first
eval_string_variables_first(self, conf, content, depth) ==
    EvalFunctionsAfter(self, conf,
        _eval_content_variables(self, conf, content, << >>, depth), depth)

\* lines 265-270: the functions, then the variables
eval_string(self, conf, content, depth) ==
    EvalVariables(self, conf,
        _eval_content_functions(self, conf, content, depth), depth)

\* a variant of StripContent that keeps the content as it is
KeepContent(content) == content

\* line 263: content = content.strip()
StripContent(content) == S(Strip(content.v))

eval_content_with_bind_actions(self, conf, content, depth) ==
    CASE content.k = "none" -> Ok(None, << >>)
      [] content.k = "list" ->
            EvalItems(self, conf, content.v, Ok(L(<< >>), << >>), depth)
      [] content.k = "dict" ->
            EvalPairs(self, conf, content.v, Ok(D(<< >>), << >>), depth)
      [] content.k = "str" ->
            eval_string(self, conf, StripContent(content), depth)
      [] OTHER -> Ok(content, << >>)

(***************************************************************************)
(* Python truth, dictionaries and paths.                                   *)
(***************************************************************************)
\* bool(x)
Truthy(x) ==
    CASE x.k = "none" -> FALSE
      [] x.k = "bool" -> x.v
      [] x.k = "int"  -> x.v # 0
      [] x.k \in {"str", "list", "dict"} -> x.v # << >>
      [] OTHER -> TRUE

\* dict.pop(key, default), the dictionary that is left
DictDel(pairs, key) == SelectSeq(pairs, LAMBDA p : p[1] # key)

\* dict.get(key, default)
DictGetOr(pairs, key, default) ==
    IF HasKey(pairs, key) THEN DictGet(pairs, key) ELSE default

\* dict.update(other): the keys in the order they are first set, each with
\* the value set for it last
DictUpdate(pairs, other) ==
    LET all == pairs \o other
        First(i) == \A j \in 1..(i - 1) : all[j][1] # all[i][1]
        Last(i) == CHOOSE j \in i..Len(all) :
                       /\ all[j][1] = all[i][1]
                       /\ \A q \in (j + 1)..Len(all) : all[q][1] # all[i][1]
        firsts == SelectSeq([ i \in 1..Len(all) |-> i ], First)
    IN  [ m \in 1..Len(firsts) |-> << all[firsts[m]][1], all[Last(firsts[m])][2] >> ]

Keys(pairs) == [ i \in 1..Len(pairs) |-> pairs[i][1] ]

\* what "for item in x" goes through
Iter(x) ==
    CASE x.k = "list" -> x.v
      [] x.k = "dict" -> Keys(x.v)
      [] OTHER -> << >>

Contains(s, t) == FindFrom(s, t, 1) # 0

EndsWith(s, t) == Len(t) <= Len(s) /\ StartsAt(s, Len(s) - Len(t) + 1, t)

\* the last index <= i of character c in s, 0 when there is none
LastIndexOf(s, c, i) ==
    IF \E n \in 1..i : s[n] = c
    THEN CHOOSE n \in 1..i : s[n] = c /\ \A q \in (n + 1)..i : s[q] # c
    ELSE 0

UpperChars == << "A", "B", "C", "D", "E", "F", "G", "H", "I", "J", "K", "L", "M", "N", "O", "P", "Q", "R", "S", "T", "U", "V", "W", "X", "Y", "Z" >>

LowerChars == << "a", "b", "c", "d", "e", "f", "g", "h", "i", "j", "k", "l", "m", "n", "o", "p", "q", "r", "s", "t", "u", "v", "w", "x", "y", "z" >>

\* str.lower()
Lower(s) ==
    [ i \in 1..Len(s) |->
        IF \E n \in 1..26 : UpperChars[n] = s[i]
        THEN LowerChars[CHOOSE n \in 1..26 : UpperChars[n] = s[i]]
        ELSE s[i] ]

\* os.path.isabs
isabs(p) == p # << >> /\ p[1] = "/"

\* os.path.join(a, b)
join(a, b) ==
    IF isabs(b) THEN b
    ELSE IF a = << >> \/ a[Len(a)] = "/" THEN a \o b
    ELSE a \o << "/" >> \o b

\* s without the slashes it ends with
RStripSlash(s) ==
    IF \A i \in 1..Len(s) : s[i] = "/" THEN << >>
    ELSE Sub(s, 1, CHOOSE i \in 1..Len(s) :
                       /\ s[i] # "/"
                       /\ \A n \in (i + 1)..Len(s) : s[n] = "/")

\* os.path.dirname
dirname(p) ==
    LET head == Sub(p, 1, LastIndexOf(p, "/", Len(p)))
    IN  IF \E n \in 1..Len(head) : head[n] # "/" THEN RStripSlash(head) ELSE head

RECURSIVE NormParts(_, _)
\* os.path.normpath over the components of an absolute path
NormParts(parts, acc) ==
    IF parts = << >> THEN acc
    ELSE NormParts(Tail(parts),
           CASE Head(parts) \in { << >>, << "." >> } -> acc
             [] Head(parts) = << ".", "." >> ->
                    IF acc = << >> THEN acc ELSE Sub(acc, 1, Len(acc) - 1)
             [] OTHER -> Append(acc, Head(parts)))

\* os.path.abspath: normpath(join(getcwd(), p))
abspath(cwd, p) ==
    LET parts == NormParts(Split(join(cwd, p), "/"), << >>)
    IN  IF parts = << >> THEN << "/" >>
        ELSE Concat([ i \in 1..Len(parts) |-> << "/" >> \o parts[i] ])

\* os.path.splitext(p)[1]
splitext_ext(p) ==
    LET slash == LastIndexOf(p, "/", Len(p))
        dot   == LastIndexOf(p, ".", Len(p))
    IN  IF dot > slash + 1 /\ \E n \in (slash + 1)..(dot - 1) : p[n] # "."
        THEN Sub(p, dot, Len(p))
        ELSE << >>

(***************************************************************************)
(* The file system: fs maps a path to [type, data]; a file's data is the   *)
(* tree its text decodes to, or Undecodable.                               *)
(***************************************************************************)
Absent == [type |-> "absent", data |-> None]

Dir == [type |-> "dir", data |-> None]

Undecodable == [k |-> "undecodable", v |-> 0]

File(data) == [type |-> "file", data |-> data]

\* os is the process's view of the system: [fs, cwd]; a relative path is
\* resolved against cwd
Node(os, p) ==
    LET full == abspath(os.cwd, p)
    IN  IF full \in DOMAIN os.fs THEN os.fs[full] ELSE Absent

isfile(os, p) == Node(os, p).type = "file"

isdir(os, p) == Node(os, p).type = "dir"

Raise(exc) == [exc |-> exc, val |-> None]

Return(val) == [exc |-> "none", val |-> val]

(***************************************************************************)
(* Document Loader (class Yaml).                                           *)
(***************************************************************************)
Yaml_check_format(content) ==
    IF ~Truthy(content) THEN "FileFormatError"
    ELSE IF content.k \notin {"list", "dict"} THEN "FileFormatError"
    ELSE "none"

Yaml_load_file(os, file_path) ==
    LET file_suffix == Lower(splitext_ext(file_path))
        data        == Node(os, file_path).data
        checked     == IF Yaml_check_format(data) # "none"
                       THEN Raise(Yaml_check_format(data))
                       ELSE Return(data)
    IN  IF ~isfile(os, file_path) THEN Raise("FileNotFoundError")
        ELSE IF file_suffix = << ".", "j", "s", "o", "n" >>
        THEN IF data = Undecodable THEN Raise("FileFormatError") ELSE checked
        ELSE IF file_suffix \in { << ".", "y", "a", "m", "l" >>, << ".", "y", "m", "l" >> }
        THEN IF data = Undecodable THEN Raise("YAMLError") ELSE checked
        ELSE Return(L(<< >>))

\* Yaml.load_folder_files(folder_path) for one path: the files os.walk
\* finds under it, each as folder_path joined with its place below it, as
\* a set (os.walk lists a directory in no fixed order)
Yaml_load_folder_files(os, folder_path) ==
    LET root == abspath(os.cwd, folder_path) \o << "/" >>
    IN  IF ~isdir(os, folder_path) THEN { }
        ELSE { join(folder_path, Sub(p, Len(root) + 1, Len(p))) :
                 p \in { q \in DOMAIN os.fs :
                           /\ os.fs[q].type = "file"
                           /\ StartsAt(q, 1, root)
                           /\ \/ EndsWith(q, << ".", "y", "m", "l" >>)
                              \/ EndsWith(q, << ".", "y", "a", "m", "l" >>)
                              \/ EndsWith(q, << ".", "j", "s", "o", "n" >>) } }

(***************************************************************************)
(* substitute_variables_with_mapping.  An exception raised inside the walk *)
(* is the value Raised(type), which every enclosing container becomes.     *)
(***************************************************************************)
Raised(type) == [k |-> "raise", v |-> type]

\* str.replace(old, new), also for the empty old
StrReplace(s, old, new) ==
    IF old = << >>
    THEN new \o Concat([ i \in 1..Len(s) |-> << s[i] >> \o new ])
    ELSE ReplaceAll(s, old, new)

RECURSIVE SubstituteString(_, _)
\* the loop of lines 164-169 over mapping.items()
SubstituteString(content, items) ==
    IF items = << >> \/ content.k = "raise" THEN content
    ELSE LET var   == Head(items)[1]
             value == Head(items)[2]
         IN  SubstituteString(
               IF content = var THEN value
               ELSE IF ~IsStr(content) THEN Raised("AttributeError")
               ELSE IF ~IsStr(var) THEN Raised("TypeError")
               ELSE S(StrReplace(content.v, var.v, PyStr(value))),
               Tail(items))

RECURSIVE substitute_variables_with_mapping(_, _)
RECURSIVE SubstitutePairs(_, _, _)

\* the loop of lines 156-159: evals holds eval_key and eval_value of every
\* pair; the first exception met ends the loop, acc is substituted_data
SubstitutePairs(pairs, mapping, acc) ==
    LET evals == [ i \in 1..Len(pairs) |->
                     << substitute_variables_with_mapping(pairs[i][1], mapping),
                        substitute_variables_with_mapping(pairs[i][2], mapping) >> ]
        Raises(i) == evals[i][1].k = "raise" \/ evals[i][2].k = "raise"
    IN  IF \E i \in 1..Len(evals) : Raises(i)
        THEN LET first == CHOOSE i \in 1..Len(evals) :
                              Raises(i) /\ \A j \in 1..(i - 1) : ~Raises(j)
             IN  IF evals[first][1].k = "raise" THEN evals[first][1]
                                               ELSE evals[first][2]
        ELSE D(DictUpdate(acc, evals))

substitute_variables_with_mapping(content, mapping) ==
    CASE content.k \in {"bool", "int"} -> content
      [] ~Truthy(content) -> content
      [] content.k = "list" ->
            LET items == [ i \in 1..Len(content.v) |->
                     substitute_variables_with_mapping(content.v[i], mapping) ]
            IN  IF \E i \in 1..Len(items) : items[i].k = "raise"
                THEN items[CHOOSE i \in 1..Len(items) :
                             /\ items[i].k = "raise"
                             /\ \A j \in 1..(i - 1) : items[j].k # "raise"]
                ELSE L(items)
      [] content.k = "dict" -> SubstitutePairs(content.v, mapping, << >>)
      [] OTHER -> SubstituteString(content, mapping)

\* a value as the result of a call: the exception it stands for is raised
ResultOf(v) == IF v.k = "raise" THEN Raise(v.v) ELSE Return(v)

(***************************************************************************)
(* Definition Store and Case Assembler (class YamlCaseLoader).             *)
(***************************************************************************)
\* the dictionary parse_function returns
MetaDict(meta) ==
    D(<< << S(<< "f", "u", "n", "c", "_", "n", "a", "m", "e" >>), S(meta.func_name) >>,
         << S(<< "a", "r", "g", "s" >>), L(meta.args) >>,
         << S(<< "k", "w", "a", "r", "g", "s" >>), D(meta.kwargs) >> >>)

\* parse_function on a value: the regular expression takes a string only
parse_function_value(x) ==
    IF IsStr(x) THEN parse_function(x.v)
    ELSE [exc |-> "TypeError", func_name |-> << >>, args |-> << >>, kwargs |-> << >>]

_get_test_definition(defs, name, ref_type) ==
    LET kind  == DictGetOr(defs.v, S(ref_type), D(<< >>))
        block == DictGet(kind.v, S(name))
    IN  IF ~Truthy(block)
        THEN IF ref_type = << "a", "p", "i" >> THEN Raise("ApiNotFound")
                                   ELSE Raise("SuiteNotFound")
        ELSE Return(block)

RECURSIVE ArgsMapping(_, _, _, _)
\* the loop of lines 669-673; index counts from 1 here
ArgsMapping(def_args, call_args, index, args_mapping) ==
    IF index > Len(def_args) THEN args_mapping
    ELSE ArgsMapping(def_args, call_args, index + 1,
           IF call_args[index] = def_args[index] THEN args_mapping
           ELSE DictSet(args_mapping, def_args[index], call_args[index]))

\* lines 675-678: the block with the arguments put in place
SubstituteBlock(block, args_mapping) ==
    IF args_mapping = << >> THEN Return(block)
    ELSE ResultOf(substitute_variables_with_mapping(block, args_mapping))

\* a variant of BindArgs that lets surplus arguments pass
BindArgsTruncated(block, call_args, def_args) ==
    IF Len(call_args) < Len(def_args) THEN Raise("ParamsError")
    ELSE SubstituteBlock(block, ArgsMapping(def_args, call_args, 1, << >>))

\* lines 665-673: the check of the arguments against the parameters
BindArgs(block, call_args, def_args) ==
    IF Len(call_args) # Len(def_args) THEN Raise("ParamsError")
    ELSE SubstituteBlock(block, ArgsMapping(def_args, call_args, 1, << >>))

\* line 663: the parameters the definition declares
DefArgs(block) ==
    DictGetOr(DictGet(block.v, S(<< "f", "u", "n", "c", "t", "i", "o", "n", "_", "m", "e", "t", "a" >>)).v, S(<< "a", "r", "g", "s" >>), L(<< >>)).v

\* lines 662-678, found being what _get_test_definition gave
BlockOf(found, call_args) ==
    IF found.exc # "none" THEN found
    ELSE BindArgs(found.val, call_args, DefArgs(found.val))

\* lines 659-678, function_meta being what parse_function gave
BlockByMeta(defs, function_meta, ref_type) ==
    IF function_meta.exc # "none" THEN Raise(function_meta.exc)
    ELSE BlockOf(_get_test_definition(defs, function_meta.func_name, ref_type),
                 function_meta.args)

_get_block_by_name(defs, ref_call, ref_type) ==
    BlockByMeta(defs, parse_function_value(ref_call), ref_type)

\* one of the three merges of lines 716-735: the value stored under the
\* field, or the exception list.extend raises
MergeList(def_list, current_list) ==
    IF ~Truthy(def_list) THEN Return(current_list)
    ELSE IF ~Truthy(current_list) THEN Return(def_list)
    ELSE IF current_list.k # "list" THEN Raise("AttributeError")
    ELSE IF def_list.k \notin {"list", "str", "dict"} THEN Raise("TypeError")
    ELSE Return(None)     \* list.extend returns None

\* a variant of UpdatedBlock in which the fields of the case block win
UpdatedBlockCaseFirst(def_block, current_block) ==
    DictUpdate(def_block.v, current_block.v)

\* line 714: current_block.update(def_block)
UpdatedBlock(def_block, current_block) ==
    DictUpdate(current_block.v, def_block.v)

\* _override_block(def_block, current_block): current_block afterwards
_override_block(def_block, current_block) ==
    LET def_pre        == DictGet(def_block.v, S(<< "p", "r", "e", "_", "c", "o", "m", "m", "a", "n", "d" >>))
        current_pre    == DictGet(current_block.v, S(<< "p", "r", "e", "_", "c", "o", "m", "m", "a", "n", "d" >>))
        def_post       == DictGet(def_block.v, S(<< "p", "o", "s", "t", "_", "c", "o", "m", "m", "a", "n", "d" >>))
        current_post   == DictGet(current_block.v, S(<< "p", "o", "s", "t", "_", "c", "o", "m", "m", "a", "n", "d" >>))
        def_verify     == DictGet(def_block.v, S(<< "v", "e", "r", "i", "f", "y" >>))
        current_verify == DictGet(current_block.v, S(<< "v", "e", "r", "i", "f", "y" >>))
        pre     == MergeList(def_pre, current_pre)
        post    == MergeList(def_post, current_post)
        verify  == MergeList(def_verify, current_verify)
    IN  IF pre.exc # "none" THEN pre
        ELSE IF post.exc # "none" THEN post
        ELSE IF verify.exc # "none" THEN verify
        ELSE Return(D(DictSet(DictSet(DictSet(UpdatedBlock(def_block, current_block),
                 S(<< "p", "r", "e", "_", "c", "o", "m", "m", "a", "n", "d" >>), pre.val),
                 S(<< "p", "o", "s", "t", "_", "c", "o", "m", "m", "a", "n", "d" >>), post.val),
                 S(<< "v", "e", "r", "i", "f", "y" >>), verify.val)))

\* FileSystemUtils.get_legal_filename: the name without the characters a
\* file name may not hold
get_legal_filename(fn) ==
    SelectSeq(fn, LAMBDA c : c \notin { "\\", "/", ":", "*", "?", "\"", "<", ">", "|" })

\* re.search("^[\w-]+$", case_id)
IsCaseId(s) ==
    s # << >> /\ \A i \in 1..Len(s) : s[i] \in WordChars \cup { "-" }

\* overall_def_dict[ref_type][name] = block
StoreDefinition(defs, ref_type, name, block) ==
    D(DictSet(defs.v, S(ref_type),
              D(DictSet(DictGet(defs.v, S(ref_type)).v, S(name), block))))

\* lines 523-530: the definition is stored under its name
StoreApi(st, api_dict, function_meta) ==
    IF function_meta.exc # "none"
    THEN [st EXCEPT !.exc = function_meta.exc]
    ELSE [st EXCEPT !.defs = StoreDefinition(
             @, << "a", "p", "i" >>, function_meta.func_name,
             D(DictSet(DictDel(api_dict.v, S(<< "d", "e", "f" >>)),
                       S(<< "f", "u", "n", "c", "t", "i", "o", "n", "_", "m", "e", "t", "a" >>), MetaDict(function_meta))))]

\* lines 515-530 for one entry of the file; st is [exc, defs]
load_api_item(api_item, st) ==
    IF api_item.k # "dict" \/ Len(api_item.v) # 1
    THEN [st EXCEPT !.exc = "FileFormatError"]
    ELSE IF \/ api_item.v[1][1] # S(<< "a", "p", "i" >>)
            \/ api_item.v[1][2].k # "dict"
            \/ ~HasKey(api_item.v[1][2].v, S(<< "d", "e", "f" >>))
    THEN [st EXCEPT !.exc = "FileFormatError"]
    ELSE StoreApi(st, api_item.v[1][2],
                  parse_function_value(DictGet(api_item.v[1][2].v, S(<< "d", "e", "f" >>))))

RECURSIVE load_api_items(_, _)
\* the loop of lines 514-530
load_api_items(api_items, st) ==
    IF api_items = << >> \/ st.exc # "none" THEN st
    ELSE load_api_items(Tail(api_items), load_api_item(Head(api_items), st))

\* lines 510-530, api_items being what the file holds
load_api_list(defs, api_items) ==
    IF api_items.exc # "none" THEN [exc |-> api_items.exc, defs |-> defs]
    ELSE IF api_items.val.k # "list"
    THEN [exc |-> "FileFormatError", defs |-> defs]
    ELSE load_api_items(api_items.val.v, [exc |-> "none", defs |-> defs])

\* load_api_file(file_path): the exception raised and overall_def_dict as
\* it is left
load_api_file(os, defs, file_path) ==
    load_api_list(defs, Yaml_load_file(os, file_path))

\* lines 577-579: the case is appended to the cases of the testset
AppendCase(st, merged) ==
    IF merged.exc # "none" THEN [st EXCEPT !.exc = merged.exc]
    ELSE [st EXCEPT !.cases = Append(@, merged.val)]

\* lines 576-579: a case that refers to an api definition
ApiCase(st, def_block, test_block) ==
    IF def_block.exc # "none" THEN [st EXCEPT !.exc = def_block.exc]
    ELSE AppendCase(st, _override_block(def_block.val, test_block))

\* a variant of ExtendCases that adds the list of the suite as one case
AppendCases(st, cases) ==
    IF cases.k = "list" THEN [st EXCEPT !.cases = Append(@, cases)]
                        ELSE [st EXCEPT !.exc = "TypeError"]

\* line 585: the cases of the suite join the cases of the testset
ExtendCases(st, cases) ==
    IF cases.k = "list" THEN [st EXCEPT !.cases = @ \o cases.v]
                        ELSE [st EXCEPT !.exc = "TypeError"]

\* lines 583-585: a case that refers to a suite definition
SuiteCase(st, block) ==
    IF block.exc # "none" THEN [st EXCEPT !.exc = block.exc]
    ELSE IF ~HasKey(block.val.v, S(<< "c", "a", "s", "e", "s" >>))
    THEN [st EXCEPT !.exc = "KeyError"]
    ELSE ExtendCases(st, DictGet(block.val.v, S(<< "c", "a", "s", "e", "s" >>)))

\* lines 574-588: test_block has its "name" and has lost "id" and "desc"
CaseByReference(defs, test_block, st) ==
    IF HasKey(test_block, S(<< "a", "p", "i" >>))
    THEN ApiCase(st, _get_block_by_name(defs, DictGet(test_block, S(<< "a", "p", "i" >>)), << "a", "p", "i" >>),
                 D(test_block))
    ELSE IF HasKey(test_block, S(<< "s", "u", "i", "t", "e" >>))
    THEN SuiteCase(st, _get_block_by_name(defs, DictGet(test_block, S(<< "s", "u", "i", "t", "e" >>)), << "s", "u", "i", "t", "e" >>))
    ELSE [st EXCEPT !.cases = Append(@, D(test_block))]

\* line 572: the name of the case
CaseName(case_id, desc) ==
    S(get_legal_filename(PyStr(case_id) \o << "[" >> \o PyStr(desc) \o << "]" >>))

\* lines 566-588 for a "case" entry
load_case(defs, test_block, case_id, st) ==
    IF ~Truthy(case_id) THEN [st EXCEPT !.exc = "ModelFormatError"]
    ELSE IF ~IsStr(case_id) THEN [st EXCEPT !.exc = "TypeError"]
    ELSE IF ~IsCaseId(case_id.v) THEN [st EXCEPT !.exc = "ModelFormatError"]
    ELSE CaseByReference(defs,
             DictSet(DictDel(DictDel(test_block.v, S(<< "i", "d" >>)), S(<< "d", "e", "s", "c" >>)),
                     S(<< "n", "a", "m", "e" >>),
                     CaseName(case_id, DictGetOr(test_block.v, S(<< "d", "e", "s", "c" >>), S(<< >>)))),
             st)

\* a variant of load_file_entry that takes an unexpected key for an error
load_file_entry_strict(defs, key, test_block, st) ==
    IF test_block.k # "dict"
    THEN [st EXCEPT !.exc = "FileFormatError"]
    ELSE IF key = S(<< "p", "r", "o", "j", "e", "c", "t" >>)
    THEN [st EXCEPT
            !.project = DictUpdate(@, test_block.v),
            !.name = DictGetOr(test_block.v, S(<< "m", "o", "d", "u", "l", "e" >>),
                               S(<< "D", "e", "f", "a", "u", "l", "t", " ", "T", "e", "s", "t", " ", "S", "e", "t" >>))]
    ELSE IF key = S(<< "c", "a", "s", "e" >>)
    THEN load_case(defs, test_block,
                   DictGetOr(test_block.v, S(<< "i", "d" >>), S(<< >>)), st)
    ELSE [st EXCEPT !.exc = "FileFormatError"]

\* lines 558-591 for the entry key: test_block
load_file_entry(defs, key, test_block, st) ==
    IF test_block.k # "dict"
    THEN [st EXCEPT !.exc = "FileFormatError"]
    ELSE IF key = S(<< "p", "r", "o", "j", "e", "c", "t" >>)
    THEN [st EXCEPT
            !.project = DictUpdate(@, test_block.v),
            !.name = DictGetOr(test_block.v, S(<< "m", "o", "d", "u", "l", "e" >>),
                               S(<< "D", "e", "f", "a", "u", "l", "t", " ", "T", "e", "s", "t", " ", "S", "e", "t" >>))]
    ELSE IF key = S(<< "c", "a", "s", "e" >>)
    THEN load_case(defs, test_block,
                   DictGetOr(test_block.v, S(<< "i", "d" >>), S(<< >>)), st)
    ELSE st      \* an unexpected key: a warning

\* one pass of the loop of lines 553-591; st is the testset being built:
\* [project, cases, name, exc]; name is None until a project entry sets it
load_file_item(defs, item, st) ==
    IF item.k # "dict" \/ Len(item.v) # 1
    THEN [st EXCEPT !.exc = "FileFormatError"]
    ELSE load_file_entry(defs, item.v[1][1], item.v[1][2], st)

\* the testset with the exception met first, if one was met before
KeepError(exc, st) == IF exc = "none" THEN st ELSE [st EXCEPT !.exc = exc]

RECURSIVE load_file_loop_resuming(_, _, _)
\* a variant of load_file_loop that goes on to the entries after a failure
load_file_loop_resuming(defs, items, st) ==
    IF items = << >> THEN st
    ELSE load_file_loop_resuming(defs, Tail(items),
             KeepError(st.exc, load_file_item(defs, Head(items),
                                              [st EXCEPT !.exc = "none"])))

RECURSIVE load_file_loop(_, _, _)
\* the loop of lines 553-591: it ends at the first exception
load_file_loop(defs, items, st) ==
    IF items = << >> \/ st.exc # "none" THEN st
    ELSE load_file_loop(defs, Tail(items), load_file_item(defs, Head(items), st))

\* the testset dictionary of lines 539-543, with "name" once it is set
TestSet(yaml_file, st) ==
    D(<< << S(<< "f", "i", "l", "e", "_", "p", "a", "t", "h" >>), S(yaml_file) >>,
         << S(<< "p", "r", "o", "j", "e", "c", "t" >>), D(st.project) >>,
         << S(<< "c", "a", "s", "e", "s" >>), L(st.cases) >> >>
      \o IF st.name = None THEN << >> ELSE << << S(<< "n", "a", "m", "e" >>), st.name >> >>)

\* lines 539-543: the testset before anything is read
EmptyTestSet == [project |-> << >>, cases |-> << >>, name |-> None, exc |-> "none"]

\* lines 550-591, test_cases being what the file holds
load_file_cases(defs, test_cases) ==
    IF test_cases.exc # "none"
    THEN [EmptyTestSet EXCEPT !.exc = test_cases.exc]
    ELSE load_file_loop(defs, Iter(test_cases.val), EmptyTestSet)

\* a variant of load_file_return that lets the exception reach the caller
load_file_reraise(yaml_file, st) ==
    [exc |-> st.exc, val |-> IF st.exc = "none" THEN TestSet(yaml_file, st) ELSE None,
     caught |-> "none"]

\* lines 593-596: whatever was raised is logged, the testset is returned
load_file_return(yaml_file, st) ==
    [exc |-> "none", val |-> TestSet(yaml_file, st), caught |-> st.exc]

\* load_file(yaml_file): [exc, val, caught]: the exception raised to the
\* caller, the testset returned, and the exception caught and logged at
\* line 593
load_file(os, defs, yaml_file) ==
    IF ~isfile(os, yaml_file)
    THEN [exc |-> "FileNotFoundError", val |-> None, caught |-> "none"]
    ELSE load_file_return(yaml_file,
             load_file_cases(defs, Yaml_load_file(os, yaml_file)))

RECURSIVE load_api_files(_, _, _)
\* the loop of lines 490-491; st is [exc, defs]
load_api_files(os, files, st) ==
    IF files = << >> \/ st.exc # "none" THEN st
    ELSE load_api_files(os, Tail(files), load_api_file(os, st.defs, Head(files)))

\* lines 499-502: the suite is stored under the name its project declares
StoreSuite(st, suite, function_meta) ==
    IF function_meta.exc # "none"
    THEN [st EXCEPT !.exc = function_meta.exc]
    ELSE [st EXCEPT !.defs = StoreDefinition(
             @, << "s", "u", "i", "t", "e" >>, function_meta.func_name,
             D(DictSet(suite.v, S(<< "f", "u", "n", "c", "t", "i", "o", "n", "_", "m", "e", "t", "a" >>), MetaDict(function_meta))))]

\* lines 496-502, project being suite["project"]
load_suite_project(st, suite, project) ==
    IF ~HasKey(project.v, S(<< "d", "e", "f" >>))
    THEN [st EXCEPT !.exc = "ParamsError"]
    ELSE StoreSuite(st, suite, parse_function_value(DictGet(project.v, S(<< "d", "e", "f" >>))))

\* lines 495-502, loaded being what load_file gave
load_suite(st, loaded) ==
    IF loaded.exc # "none" THEN [st EXCEPT !.exc = loaded.exc]
    ELSE load_suite_project(st, loaded.val, DictGet(loaded.val.v, S(<< "p", "r", "o", "j", "e", "c", "t" >>)))

RECURSIVE load_suite_files(_, _, _)
\* the loop of lines 494-502; st is [exc, defs]
load_suite_files(os, files, st) ==
    IF files = << >> \/ st.exc # "none" THEN st
    ELSE load_suite_files(os, Tail(files),
                          load_suite(st, load_file(os, st.defs, Head(files))))

\* the members of set files in the order rank lists them
InOrder(files, rank) == SelectSeq(rank, LAMBDA p : p \in files)

\* lines 486-502, path being the dependencies folder
load_dependencies_in(os, defs, path, rank) ==
    load_suite_files(os,
        InOrder(Yaml_load_folder_files(os, join(path, << "s", "u", "i", "t", "e" >>)), rank),
        load_api_files(os,
            InOrder(Yaml_load_folder_files(os, join(path, << "a", "p", "i" >>)), rank),
            [exc |-> "none", defs |-> defs]))

\* load_dependencies(path_or_yamlfile): [exc, defs]; rank is the order in
\* which os.walk comes to list the files
load_dependencies(os, defs, path_or_yamlfile, rank) ==
    load_dependencies_in(os, defs,
        IF isdir(os, path_or_yamlfile)
        THEN join(abspath(os.cwd, path_or_yamlfile), << "d", "e", "p", "e", "n", "d", "e", "n", "c", "i", "e", "s" >>)
        ELSE join(dirname(abspath(os.cwd, path_or_yamlfile)), << "d", "e", "p", "e", "n", "d", "e", "n", "c", "i", "e", "s" >>),
        rank)

RECURSIVE load_files(_, _, _, _, _)
RECURSIVE load_files_each(_, _, _, _, _)
RECURSIVE load_files_path(_, _, _, _, _)

\* lines 617-620: the testsets of one member join the list
load_files_extend(st, one) ==
    [ret   |-> st.ret \o one.ret,
     cache |-> one.cache,
     reads |-> st.reads + one.reads]

\* the loop of lines 614-620 over set(path); st is [ret, cache, reads]
load_files_each(os, defs, paths, rank, st) ==
    IF paths = << >> THEN st
    ELSE load_files_each(os, defs, Tail(paths), rank,
           IF Contains(Head(paths), << "d", "e", "p", "e", "n", "d", "e", "n", "c", "i", "e", "s" >>) THEN st
           ELSE load_files_extend(st,
                    load_files(os, defs, st.cache, S(Head(paths)), rank)))

\* lines 649-650: the list is remembered under the path and returned
load_files_store(cache, path, testcases_list, reads) ==
    [ret   |-> testcases_list,
     cache |-> DictSet(cache, S(path), L(testcases_list)),
     reads |-> reads]

\* lines 630-632 and 649-650, sub being what load_files gave for the files of the folder
load_files_folder(path, sub) ==
    load_files_store(sub.cache, path, sub.ret, sub.reads + 2)

\* lines 638-641
TestcasesList(testset) ==
    IF Truthy(DictGet(testset.v, S(<< "c", "a", "s", "e", "s" >>))) THEN << testset >> ELSE << >>

\* a sequence of paths as the list of strings it is
PathList(paths) == L([ i \in 1..Len(paths) |-> S(paths[i]) ])

\* a variant of CacheHit for a loader that remembers nothing
NoCacheHit(cache, path) == FALSE

\* line 627: path in testcases_cache_mapping
CacheHit(cache, path) == HasKey(cache, S(path))

\* lines 627-650, path being absolute
load_files_path(os, defs, cache, path, rank) ==
    IF CacheHit(cache, path)
    THEN [ret |-> DictGet(cache, S(path)).v, cache |-> cache, reads |-> 0]
    ELSE IF isdir(os, path)
    THEN load_files_folder(path,
             load_files(os, defs, cache,
                 PathList(InOrder(Yaml_load_folder_files(os, path), rank)), rank))
    ELSE IF isfile(os, path)
    THEN load_files_store(cache, path,
             TestcasesList(load_file(os, defs, path).val), 3)
    ELSE load_files_store(cache, path, << >>, 2)

\* load_files(path): [ret, cache, reads]: the list returned,
\* testcases_cache_mapping as it is left, and how many times the call went
\* to the file system.  rank is the order iteration over a set follows.
load_files(os, defs, cache, path, rank) ==
    IF path.k = "list"
    THEN load_files_each(os, defs,
             InOrder({ path.v[i].v : i \in 1..Len(path.v) }, rank), rank,
             [ret |-> << >>, cache |-> cache, reads |-> 0])
    ELSE load_files_path(os, defs, cache,
             IF isabs(path.v) THEN path.v ELSE join(os.cwd, path.v), rank)

(***************************************************************************)
(* The state.                                                              *)
(***************************************************************************)
VARIABLES
    fs,                       \* the file system: path -> [type, data]
    cwd,                      \* os.getcwd()
    overall_def_dict,         \* YamlCaseLoader.overall_def_dict
    testcases_cache_mapping,  \* YamlCaseLoader.testcases_cache_mapping
    parser,                   \* a TestCaseParser: [variables, functions, file_path]
    conf,                     \* what search_conf_item finds: [variables, functions]
    input,                    \* the arguments the caller has ready for a call
    last,                     \* the last call: its name, arguments and outcome
    heap                      \* the lists and dictionaries held by reference

vars == << fs, cwd, overall_def_dict, testcases_cache_mapping, parser, conf,
           input, last, heap >>

OS == [fs |-> fs, cwd |-> cwd]

(***************************************************************************)
(* Bounds of the inputs.                                                   *)
(***************************************************************************)
\* the plain cases before and after the entry a case document is about
MaxPad == 1

\* the items of a pre_command, post_command or verify list
MaxListLen == 1

(***************************************************************************)
(* Documents.                                                              *)
(***************************************************************************)
Item(key, block) == D(<< << S(key), block >> >>)

\* name(arg,...) as the documents write a call
RECURSIVE JoinArgs(_)
JoinArgs(args) ==
    IF args = << >> THEN << >>
    ELSE IF Len(args) = 1 THEN args[1]
    ELSE args[1] \o << "," >> \o JoinArgs(Tail(args))

FormatCall(name, args) == name \o << "(" >> \o JoinArgs(args) \o << ")" >>

\* a list of n one-word items: tag1, tag2, ...
ListOf(tag, n) == L([ i \in 1..n |-> S(tag \o NatToStr(i)) ])

\* the api definitions of dependencies/api: name, declared parameters and
\* the fields of the body
ApiNames == { << "p", "l", "a", "i", "n" >>, << "f", "u", "l", "l" >>, << "l", "o", "g", "i", "n" >> }

ApiParams(name) ==
    CASE name = << "p", "l", "a", "i", "n" >> -> << >>
      [] name = << "f", "u", "l", "l" >>  -> << >>
      [] name = << "l", "o", "g", "i", "n" >> -> << << "u" >>, << "p" >> >>

ApiBody(name) ==
    CASE name = << "p", "l", "a", "i", "n" >> -> << << S(<< "u", "r", "l" >>), S(<< "/", "p", "l", "a", "i", "n" >>) >> >>
      [] name = << "f", "u", "l", "l" >>  ->
            << << S(<< "p", "r", "e", "_", "c", "o", "m", "m", "a", "n", "d" >>), ListOf(<< "d", "p", "r", "e" >>, MaxListLen) >>,
               << S(<< "p", "o", "s", "t", "_", "c", "o", "m", "m", "a", "n", "d" >>), ListOf(<< "d", "p", "o", "s", "t" >>, MaxListLen) >>,
               << S(<< "v", "e", "r", "i", "f", "y" >>), ListOf(<< "d", "v", "e", "r" >>, MaxListLen) >>,
               << S(<< "s", "t", "e", "p", "s" >>), L(<< S(<< "d", "s", "t", "e", "p" >>) >>) >> >>
      [] name = << "l", "o", "g", "i", "n" >> ->
            << << S(<< "s", "t", "e", "p", "s" >>), L(<< S(<< "t", "y", "p", "e", " ", "u" >>), S(<< "t", "y", "p", "e", " ", "p" >>) >>) >> >>

ApiItem(name) ==
    Item(<< "a", "p", "i" >>,
         D(<< << S(<< "d", "e", "f" >>), S(FormatCall(name, ApiParams(name))) >> >>
           \o ApiBody(name)))

ApiDoc == L(<< ApiItem(<< "p", "l", "a", "i", "n" >>), ApiItem(<< "f", "u", "l", "l" >>), ApiItem(<< "l", "o", "g", "i", "n" >>) >>)

\* the suite of dependencies/suite: s(x), two cases
SuiteParams == << << "x" >> >>

SuiteDoc ==
    L(<< Item(<< "p", "r", "o", "j", "e", "c", "t" >>,
              D(<< << S(<< "d", "e", "f" >>), S(FormatCall(<< "s" >>, SuiteParams)) >>,
                   << S(<< "m", "o", "d", "u", "l", "e" >>), S(<< "m" >>) >> >>)),
         Item(<< "c", "a", "s", "e" >>,
              D(<< << S(<< "i", "d" >>), S(<< "s", "a" >>) >>,
                   << S(<< "s", "t", "e", "p", "s" >>), L(<< S(<< "o", "p", "e", "n", " ", "x" >>) >>) >> >>)),
         Item(<< "c", "a", "s", "e" >>,
              D(<< << S(<< "i", "d" >>), S(<< "s", "b" >>) >>,
                   << S(<< "a", "p", "i" >>), S(<< "p", "l", "a", "i", "n", "(", ")" >>) >> >>)) >>)

\* a case block: id, desc, an optional reference and the fields given
CaseBlock(id, ref, fields) ==
    D(<< << S(<< "i", "d" >>), S(id) >>, << S(<< "d", "e", "s", "c" >>), S(<< "d" >>) >> >> \o ref \o fields)

NoRef == << >>

ApiRef(call) == << << S(<< "a", "p", "i" >>), S(call) >> >>

SuiteRef(call) == << << S(<< "s", "u", "i", "t", "e" >>), S(call) >> >>

\* the fields a case block may set itself
OwnLists ==
    { << >>,
      << << S(<< "p", "r", "e", "_", "c", "o", "m", "m", "a", "n", "d" >>), ListOf(<< "c", "p", "r", "e" >>, MaxListLen) >> >>,
      << << S(<< "p", "r", "e", "_", "c", "o", "m", "m", "a", "n", "d" >>), ListOf(<< "c", "p", "r", "e" >>, MaxListLen) >>,
         << S(<< "p", "o", "s", "t", "_", "c", "o", "m", "m", "a", "n", "d" >>), ListOf(<< "c", "p", "o", "s", "t" >>, MaxListLen) >>,
         << S(<< "v", "e", "r", "i", "f", "y" >>), ListOf(<< "c", "v", "e", "r" >>, MaxListLen) >> >> }

OwnSteps == { << >>, << << S(<< "s", "t", "e", "p", "s" >>), L(<< S(<< "c", "s", "t", "e", "p" >>) >>) >> >> }

\* the entries a case document is built around
CaseEntries ==
    { Item(<< "c", "a", "s", "e" >>, CaseBlock(<< "c", "1" >>, ref, lists \o steps)) :
        ref \in { NoRef, ApiRef(<< "p", "l", "a", "i", "n", "(", ")" >>), ApiRef(<< "f", "u", "l", "l", "(", ")" >>) },
        lists \in OwnLists, steps \in OwnSteps }
    \cup
    { Item(<< "c", "a", "s", "e" >>, CaseBlock(<< "c", "1" >>, ref, << >>)) :
        ref \in { ApiRef(<< "l", "o", "g", "i", "n", "(", "$", "a", ",", "$", "b", ")" >>), ApiRef(<< "l", "o", "g", "i", "n", "(", "u", ",", "p", ")" >>),
                  ApiRef(<< "l", "o", "g", "i", "n", "(", "a", ")" >>), ApiRef(<< "n", "o", "s", "u", "c", "h", "(", ")" >>), ApiRef(<< "l", "o", "g", "i", "n", "(" >>),
                  SuiteRef(<< "s", "(", "x", ")" >>), SuiteRef(<< "s", "(", "$", "v", ")" >>), SuiteRef(<< "s", "(", ")" >>),
                  SuiteRef(<< "n", "o", "s", "u", "c", "h", "(", "x", ")" >>) } }
    \cup
    { Item(<< "c", "a", "s", "e" >>, CaseBlock(<< "c", " ", "1" >>, NoRef, << >>)),
      Item(<< "c", "a", "s", "e" >>, D(<< << S(<< "d", "e", "s", "c" >>), S(<< "d" >>) >> >>)),
      Item(<< "c", "a", "s", "e" >>, S(<< "c", "1" >>)),
      S(<< "c", "a", "s", "e" >>),
      D(<< << S(<< "c", "a", "s", "e" >>), CaseBlock(<< "c", "1" >>, NoRef, << >>) >>,
           << S(<< "p", "r", "o", "j", "e", "c", "t" >>), D(<< >>) >> >>),
      Item(<< "c", "o", "n", "f", "i", "g" >>, D(<< << S(<< "i", "d" >>), S(<< "c", "1" >>) >> >>)),
      Item(<< "c", "o", "n", "f", "i", "g" >>, S(<< "c", "1" >>)),
      Item(<< "c", "a", "s", "e", "s" >>, CaseBlock(<< "c", "1" >>, NoRef,
                                << << S(<< "s", "t", "e", "p", "s" >>), L(<< S(<< "c", "s", "t", "e", "p" >>) >>) >> >>)),
      Item(<< "c", "a", "s", "e" >>, CaseBlock(<< "c", "1" >>, ApiRef(<< "f", "u", "l", "l", "(", ")" >>),
                               << << S(<< "p", "r", "e", "_", "c", "o", "m", "m", "a", "n", "d" >>), S(<< "c", "p", "r", "e" >>) >> >>)),
      Item(<< "p", "r", "o", "j", "e", "c", "t" >>, D(<< << S(<< "m", "o", "d", "u", "l", "e" >>), S(<< "m", "o", "d" >>) >> >>)),
      Item(<< "p", "r", "o", "j", "e", "c", "t" >>, D(<< << S(<< "o", "w", "n", "e", "r" >>), S(<< "m", "e" >>) >> >>)) }

\* n plain cases: tag1, tag2, ...
PadCases(tag, n) ==
    [ i \in 1..n |->
        Item(<< "c", "a", "s", "e" >>, CaseBlock(tag \o NatToStr(i), NoRef,
                 << << S(<< "s", "t", "e", "p", "s" >>), L(<< S(tag) >>) >> >>)) ]

\* what a case file may hold: an entry among plain cases, or a root that is
\* no list of entries
CaseDocs ==
    { L(PadCases(<< "a" >>, before) \o << entry >> \o PadCases(<< "b" >>, after)) :
        entry \in CaseEntries, before \in 0..MaxPad, after \in 0..MaxPad }
    \cup
    { L(<< >>), None, S(<< "c", "a", "s", "e" >>), Undecodable,
      D(<< << S(<< "c", "a", "s", "e" >>), CaseBlock(<< "c", "1" >>, NoRef, << >>) >> >>) }

(***************************************************************************)
(* Paths.                                                                  *)
(***************************************************************************)
CaseRoot == << "/", "w" >>

CaseFile == << "/", "w", "/", "c", ".", "y", "m", "l" >>

NoteFile == << "/", "w", "/", "c", ".", "t", "x", "t" >>

ApiFile == << "/", "w", "/", "d", "e", "p", "e", "n", "d", "e", "n", "c", "i", "e", "s", "/", "a", "p", "i", "/", "a", ".", "y", "m", "l" >>

SuiteFile == << "/", "w", "/", "d", "e", "p", "e", "n", "d", "e", "n", "c", "i", "e", "s", "/", "s", "u", "i", "t", "e", "/", "s", ".", "y", "m", "l" >>

Dirs == { CaseRoot, << "/", "w", "/", "d", "e", "p", "e", "n", "d", "e", "n", "c", "i", "e", "s" >>, << "/", "w", "/", "d", "e", "p", "e", "n", "d", "e", "n", "c", "i", "e", "s", "/", "a", "p", "i" >>,
          << "/", "w", "/", "d", "e", "p", "e", "n", "d", "e", "n", "c", "i", "e", "s", "/", "s", "u", "i", "t", "e" >> }

Files == { CaseFile, NoteFile, ApiFile, SuiteFile }

\* the order iteration over a set of paths may follow
Ranks == { << ApiFile, SuiteFile, CaseFile, NoteFile >> }

EmptyDefs == D(<< << S(<< "a", "p", "i" >>), D(<< >>) >>, << S(<< "s", "u", "i", "t", "e" >>), D(<< >>) >> >>)

\* TestCaseParser(variables, functions, file_path)
TestCaseParser(variables, functions, file_path) ==
    [variables |-> variables, functions |-> functions, file_path |-> file_path]

(***************************************************************************)
(* The state at the start: the classes as Python builds them, a parser     *)
(* bound to nothing, and a case root whose dependencies are written; the   *)
(* case file holds case_file and the caller has args ready.                *)
(***************************************************************************)
NoteDoc == L(PadCases(<< "n" >>, 1))

Start(case_file, args) ==
    /\ fs = [ p \in Dirs \cup Files |->
                CASE p \in Dirs   -> Dir
                  [] p = ApiFile   -> File(ApiDoc)
                  [] p = SuiteFile -> File(SuiteDoc)
                  [] p = NoteFile  -> File(NoteDoc)
                  [] OTHER -> case_file ]
    /\ cwd = CaseRoot
    /\ overall_def_dict = EmptyDefs
    /\ testcases_cache_mapping = << >>
    /\ parser = TestCaseParser(<< >>, << >>, None)
    /\ conf = [variables |-> << >>, functions |-> << >>]
    /\ input = args
    /\ last = [op |-> "init"]
    /\ heap = << >>

NoInput == [op |-> "none"]

(***************************************************************************)
(* The operations.                                                         *)
(***************************************************************************)
\* the environment writes a file
WriteFile(p, data) ==
    /\ fs' = [fs EXCEPT ![p] = File(data)]
    /\ last' = [op |-> "write", path |-> p]
    /\ UNCHANGED << cwd, overall_def_dict, testcases_cache_mapping, parser, conf,
                   input, heap >>

LoadDependencies(path_or_yamlfile, rank) ==
    LET r == load_dependencies(OS, overall_def_dict, path_or_yamlfile, rank)
    IN  /\ overall_def_dict' = r.defs
        /\ last' = [op |-> "load_dependencies", path |-> path_or_yamlfile,
                    exc |-> r.exc]
        /\ UNCHANGED << fs, cwd, testcases_cache_mapping, parser, conf,
                   input, heap >>

LoadFile(yaml_file) ==
    LET r == load_file(OS, overall_def_dict, yaml_file)
    IN  /\ last' = [op |-> "load_file", yaml_file |-> yaml_file,
                    exc |-> r.exc, ret |-> r.val, caught |-> r.caught]
        /\ UNCHANGED << fs, cwd, overall_def_dict, testcases_cache_mapping,
                        parser, conf, input, heap >>

GetBlockByName(ref_call, ref_type) ==
    LET r == _get_block_by_name(overall_def_dict, ref_call, ref_type)
    IN  /\ last' = [op |-> "_get_block_by_name", ref_call |-> ref_call,
                    ref_type |-> ref_type, exc |-> r.exc, ret |-> r.val]
        /\ UNCHANGED << fs, cwd, overall_def_dict, testcases_cache_mapping,
                        parser, conf, input, heap >>

OverrideBlock(def_block, current_block) ==
    LET r == _override_block(def_block, current_block)
    IN  /\ last' = [op |-> "_override_block", def_block |-> def_block,
                    current_block |-> current_block,
                    exc |-> r.exc, ret |-> r.val]
        /\ UNCHANGED << fs, cwd, overall_def_dict, testcases_cache_mapping,
                        parser, conf, input, heap >>

\* the paths load_file is called with: the case file, by its absolute and
\* its relative name, a file of another suffix, a directory, no file
LoadPaths == { CaseFile, << "c", ".", "y", "m", "l" >>, NoteFile, CaseRoot, << "/", "w", "/", "n", "o", "n", "e", ".", "y", "m", "l" >> }

(***************************************************************************)
(* Spec: over a case file of any content, the dependencies are loaded and  *)
(* files are loaded.                                                       *)
(***************************************************************************)
Init ==
    \E case_file \in { Absent } \cup { File(data) : data \in CaseDocs } :
        Start(case_file, NoInput)

Next ==
    \/ \E rank \in Ranks : LoadDependencies(CaseRoot, rank)
    \/ \E p \in LoadPaths : LoadFile(p)

Spec == Init /\ [][Next]_vars

(***************************************************************************)
(* SpecBlocks: one reference is resolved, or one Definition merged into    *)
(* one case block, before or after the dependencies are loaded.            *)
(***************************************************************************)
\* the reference calls: a name, positional arguments, keyword arguments
CallNames == { << "l", "o", "g", "i", "n" >>, << "p", "l", "a", "i", "n" >>, << "s" >>, << "n", "o", "s", "u", "c", "h" >> }

CallArgs ==
    { << >>, << << "u" >> >>, << << "u" >>, << "p" >> >>, << << "$", "a" >>, << "$", "b" >> >>,
      << << "x" >> >>, << << "1" >>, << "2" >>, << "3" >> >>, << << "p" >>, << "u" >> >>,
      << << "1" >>, << "2" >> >> }

CallKwargs == { << >>, << << "k", "=", "v" >> >>, << << "k", "=", "1" >>, << "j", "=", "2" >> >> }

RefCalls ==
    { [op |-> "_get_block_by_name", name |-> n, args |-> a, kwargs |-> k,
       ref_type |-> t] :
        n \in CallNames, a \in CallArgs, k \in CallKwargs,
        t \in { << "a", "p", "i" >>, << "s", "u", "i", "t", "e" >> } }

\* the Definition blocks and the case blocks _override_block is given
ListChoices(tag) == { << >> } \cup { << ListOf(tag, n) >> : n \in 1..MaxListLen }

Field(name, choice) ==
    IF choice = << >> THEN << >> ELSE << << S(name), choice[1] >> >>

DefBlocks ==
    { D(Field(<< "p", "r", "e", "_", "c", "o", "m", "m", "a", "n", "d" >>, pre) \o Field(<< "s", "t", "e", "p", "s" >>, steps)
        \o Field(<< "p", "o", "s", "t", "_", "c", "o", "m", "m", "a", "n", "d" >>, post) \o Field(<< "v", "e", "r", "i", "f", "y" >>, verify)
        \o << << S(<< "f", "u", "n", "c", "t", "i", "o", "n", "_", "m", "e", "t", "a" >>),
                 MetaDict(parse_function(<< "f", "u", "l", "l", "(", ")" >>)) >> >>) :
        pre \in ListChoices(<< "d", "p", "r", "e" >>), post \in ListChoices(<< "d", "p", "o", "s", "t" >>),
        verify \in ListChoices(<< "d", "v", "e", "r" >>), steps \in ListChoices(<< "d", "s", "t", "e", "p" >>) }

CurrentBlocks ==
    { D(<< << S(<< "a", "p", "i" >>), S(<< "f", "u", "l", "l", "(", ")" >>) >>, << S(<< "t", "i", "m", "e", "s" >>), I(3) >> >>
        \o Field(<< "v", "e", "r", "i", "f", "y" >>, verify) \o Field(<< "s", "t", "e", "p", "s" >>, steps)
        \o Field(<< "p", "r", "e", "_", "c", "o", "m", "m", "a", "n", "d" >>, pre) \o Field(<< "p", "o", "s", "t", "_", "c", "o", "m", "m", "a", "n", "d" >>, post)
        \o << << S(<< "n", "a", "m", "e" >>), S(<< "c", "1", "[", "d", "]" >>) >> >>) :
        pre \in ListChoices(<< "c", "p", "r", "e" >>), post \in ListChoices(<< "c", "p", "o", "s", "t" >>),
        verify \in ListChoices(<< "c", "v", "e", "r" >>), steps \in ListChoices(<< "c", "s", "t", "e", "p" >>) }

Merges ==
    { [op |-> "_override_block", def_block |-> d, current_block |-> c] :
        d \in DefBlocks, c \in CurrentBlocks }

InitBlocks == \E args \in RefCalls \cup Merges : Start(Absent, args)

NextBlocks ==
    \/ \E rank \in Ranks : LoadDependencies(CaseRoot, rank)
    \/ /\ input.op = "_get_block_by_name"
       /\ GetBlockByName(S(FormatCall(input.name, input.args \o input.kwargs)),
                         input.ref_type)
    \/ /\ input.op = "_override_block"
       /\ OverrideBlock(input.def_block, input.current_block)

SpecBlocks == InitBlocks /\ [][NextBlocks]_vars

(***************************************************************************)
(* SpecEval: a parser is bound to variables and functions and evaluates    *)
(* the content the caller holds.                                           *)
(***************************************************************************)
\* the pieces a string content is made of, at most MaxPieces of them
MaxPieces == 2

Pieces ==
    { << "a" >>, << " " >>, << "$", "a" >>, << "$", "b" >>, << "$", "c" >>, << "$", "z" >>, << "$", "{", "f", "(", ")", "}" >>, << "$", "{", "g", "(", ")", "}" >>,
      << "$", "{", "h", "(", "$", "a", ")", "}" >>, << "$", "{", "h", "(", "$", "z", ")", "}" >>, << "$", "{", "f", "(", "k", "=", "$", "b", ")", "}" >>, << "$", "{", "n", "(", ")", "}" >> }

RECURSIVE Strings(_)
\* the concatenations of at most n pieces
Strings(n) ==
    IF n = 0 THEN { << >> }
    ELSE Strings(n - 1) \cup { s \o p : s \in Strings(n - 1), p \in Pieces }

Contents ==
    { S(s) : s \in Strings(MaxPieces) }
    \cup
    { None, I(5),
      L(<< S(<< " ", "$", "a" >>), S(<< "$", "{", "f", "(", ")", "}" >>) >>),
      D(<< << S(<< "$", "b" >>), S(<< "$", "{", "h", "(", "$", "a", ")", "}", " " >>) >>, << S(<< "k" >>), L(<< S(<< "$", "z" >>) >>) >> >>) }

\* the callables: "const" returns val, "first" its first argument
Const(val) == [fn |-> "const", val |-> val]

First == [fn |-> "first", val |-> None]

VariableTables ==
    { << >>,
      << << S(<< "a" >>), S(<< "x" >>) >> >>,
      << << S(<< "a" >>), S(<< "x" >>) >>, << S(<< "b" >>), I(7) >> >> }

FunctionTables ==
    { << >>,
      << << S(<< "f" >>), Const(I(7)) >>, << S(<< "g" >>), Const(S(<< "$", "b" >>)) >>,
         << S(<< "h" >>), First >> >> }

\* what the configuration search finds upward of the case file
Configuration ==
    [variables |-> << << S(<< "a" >>), S(<< "y" >>) >>, << S(<< "c" >>), S(<< "z" >>) >> >>,
     functions |-> << << S(<< "f" >>), Const(I(8)) >>, << S(<< "n" >>), Const(S(<< " ", "n", " " >>)) >> >>]

update_binded_variables(self, variables) == [self EXCEPT !.variables = variables]

bind_functions(self, functions) == [self EXCEPT !.functions = functions]

UpdateBindedVariables(variables) ==
    /\ parser' = update_binded_variables(parser, variables)
    /\ last' = [op |-> "update_binded_variables"]
    /\ UNCHANGED << fs, cwd, overall_def_dict, testcases_cache_mapping, conf,
                    input, heap >>

BindFunctions(functions) ==
    /\ parser' = bind_functions(parser, functions)
    /\ last' = [op |-> "bind_functions"]
    /\ UNCHANGED << fs, cwd, overall_def_dict, testcases_cache_mapping, conf,
                    input, heap >>

EvalContentWithBindActions(content) ==
    LET r == eval_content_with_bind_actions(parser, conf, content, 0)
    IN  /\ last' = [op |-> "eval_content_with_bind_actions",
                    content |-> content,
                    ret |-> r.val, exc |-> r.exc, log |-> r.log]
        /\ UNCHANGED << fs, cwd, overall_def_dict, testcases_cache_mapping,
                        parser, conf, input, heap >>

InitEval ==
    \E content \in Contents, file_path \in { None, S(CaseFile) } :
        /\ fs = [ p \in Dirs |-> Dir ]
        /\ cwd = CaseRoot
        /\ overall_def_dict = EmptyDefs
        /\ testcases_cache_mapping = << >>
        /\ parser = TestCaseParser(<< >>, << >>, file_path)
        /\ conf = Configuration
        /\ input = [op |-> "eval_content_with_bind_actions", content |-> content]
        /\ last = [op |-> "init"]
        /\ heap = << >>

NextEval ==
    \/ \E variables \in VariableTables : UpdateBindedVariables(variables)
    \/ \E functions \in FunctionTables : BindFunctions(functions)
    \/ EvalContentWithBindActions(input.content)

SpecEval == InitEval /\ [][NextEval]_vars

(***************************************************************************)
(* SpecCache: files are loaded through load_files while the case file is   *)
(* written and removed and the dependencies are loaded.                    *)
(***************************************************************************)
RemoveFile(p) ==
    /\ fs' = [fs EXCEPT ![p] = Absent]
    /\ last' = [op |-> "remove", path |-> p]
    /\ UNCHANGED << cwd, overall_def_dict, testcases_cache_mapping, parser, conf,
                    input, heap >>

LoadFiles(path, rank) ==
    LET r == load_files(OS, overall_def_dict, testcases_cache_mapping, path, rank)
    IN  /\ testcases_cache_mapping' = r.cache
        /\ last' = [op |-> "load_files", path |-> path, ret |-> r.ret,
                    reads |-> r.reads]
        /\ UNCHANGED << fs, cwd, overall_def_dict, parser, conf, input, heap >>

\* what the case file is written with
CacheDocs ==
    { L(PadCases(<< "a" >>, 1)),
      L(<< Item(<< "c", "a", "s", "e" >>, CaseBlock(<< "c", "1" >>, ApiRef(<< "p", "l", "a", "i", "n", "(", ")" >>), << >>)) >>) }

\* the paths load_files is called with: the case file by its absolute and
\* its relative name, the case root, and a list
CachePaths ==
    { S(CaseFile), S(<< "c", ".", "y", "m", "l" >>), S(CaseRoot),
      L(<< S(CaseFile), S(NoteFile) >>) }

InitCache == Start(Absent, NoInput)

NextCache ==
    \/ \E data \in CacheDocs : WriteFile(CaseFile, data)
    \/ RemoveFile(CaseFile)
    \/ \E rank \in Ranks : LoadDependencies(CaseRoot, rank)
    \/ \E path \in CachePaths, rank \in Ranks : LoadFiles(path, rank)

SpecCache == InitCache /\ [][NextCache]_vars


(***************************************************************************)
(* SpecSuites: the suite folder holds a second suite, t(), whose document  *)
(* refers to the suite s(x); os.walk may list the two files in either      *)
(* order.                                                                  *)
(***************************************************************************)
OuterSuiteFile == << "/", "w", "/", "d", "e", "p", "e", "n", "d", "e", "n", "c", "i", "e", "s", "/", "s", "u", "i", "t", "e", "/", "t", ".", "y", "m", "l" >>

\* the document of the suite t(): its cases are plain cases around one
\* reference to the suite s
OuterSuiteDoc(before, call, after) ==
    L(<< Item(<< "p", "r", "o", "j", "e", "c", "t" >>, D(<< << S(<< "d", "e", "f" >>), S(<< "t", "(", ")" >>) >> >>)) >>
      \o PadCases(<< "t", "a" >>, before)
      \o << Item(<< "c", "a", "s", "e" >>, CaseBlock(<< "t", "r" >>, SuiteRef(call), << >>)) >>
      \o PadCases(<< "t", "b" >>, after))

OuterSuiteDocs ==
    { OuterSuiteDoc(before, call, after) :
        before \in 0..MaxPad, after \in 0..MaxPad,
        call \in { << "s", "(", "x", ")" >>, << "s", "(", "$", "v", ")" >>, << "s", "(", "y", ")" >> } }

\* the case documents loaded beside it
SuiteCaseDocs ==
    { L(<< Item(<< "c", "a", "s", "e" >>, CaseBlock(<< "c", "1" >>, SuiteRef(<< "t", "(", ")" >>), << >>)) >>),
      L(PadCases(<< "a" >>, 1)
        \o << Item(<< "c", "a", "s", "e" >>, CaseBlock(<< "c", "1" >>, SuiteRef(<< "s", "(", "x", ")" >>), << >>)) >>) }

\* the two orders os.walk may list the suite folder in
SuiteRanks ==
    { << ApiFile, SuiteFile, OuterSuiteFile, CaseFile, NoteFile >>,
      << ApiFile, OuterSuiteFile, SuiteFile, CaseFile, NoteFile >> }

InitSuites ==
    \E outer \in OuterSuiteDocs, data \in SuiteCaseDocs :
        /\ fs = [ p \in Dirs \cup Files \cup { OuterSuiteFile } |->
                    CASE p \in Dirs        -> Dir
                      [] p = ApiFile        -> File(ApiDoc)
                      [] p = SuiteFile      -> File(SuiteDoc)
                      [] p = OuterSuiteFile -> File(outer)
                      [] p = NoteFile       -> File(NoteDoc)
                      [] OTHER -> File(data) ]
        /\ cwd = CaseRoot
        /\ overall_def_dict = EmptyDefs
        /\ testcases_cache_mapping = << >>
        /\ parser = TestCaseParser(<< >>, << >>, None)
        /\ conf = [variables |-> << >>, functions |-> << >>]
        /\ input = NoInput
        /\ last = [op |-> "init"]
        /\ heap = << >>

NextSuites ==
    \/ \E rank \in SuiteRanks : LoadDependencies(CaseRoot, rank)
    \/ LoadFile(CaseFile)

SpecSuites == InitSuites /\ [][NextSuites]_vars

(***************************************************************************)
(* Lists and dictionaries as Python holds them: objects with an identity.  *)
(* The heap is the sequence of the objects made so far; a container refers *)
(* to the containers in it by Ref(address), and holds strings, numbers and *)
(* None, which nothing can change, as they are.  The operators below are   *)
(* the methods of YamlCaseLoader once more, with every in-place change     *)
(* (pop, popitem, update, extend, item assignment) done on the object it   *)
(* is done on, so that what two names share is changed for both.           *)
(***************************************************************************)
Ref(a) == [k |-> "ref", v |-> a]

IsRef(x) == x.k = "ref"

\* the items of the list, or the pairs of the dictionary, a reference is to
At(h, ref) == h[ref.v].v

\* isinstance(x, dict), isinstance(x, list)
IsDictAt(h, x) == IsRef(x) /\ h[x.v].k = "dict"

IsListAt(h, x) == IsRef(x) /\ h[x.v].k = "list"

\* bool(x)
TruthyAt(h, x) == IF IsRef(x) THEN At(h, x) # << >> ELSE Truthy(x)

\* the members iteration over x gives
IterAt(h, x) ==
    IF IsListAt(h, x) THEN At(h, x)
    ELSE IF IsDictAt(h, x) THEN Keys(At(h, x))
    ELSE IF IsStr(x) THEN [ i \in 1..Len(x.v) |-> S(<< x.v[i] >>) ]
    ELSE << >>

\* d[key] = value, d.pop(key, ...), on the object itself
SetItem(h, d, key, value) == [h EXCEPT ![d.v].v = DictSet(@, key, value)]

DelItem(h, d, key) == [h EXCEPT ![d.v].v = DictDel(@, key)]

\* a new object of the kind with the members r.vals: the heap and the
\* reference
NewObject(kind, r) ==
    [heap |-> Append(r.heap, [k |-> kind, v |-> r.vals]),
     val  |-> Ref(Len(r.heap) + 1)]

\* a list or a dictionary: what the decoder makes an object of
IsObject(value) == value.k \in {"list", "dict"}

\* the items of a list, the values of a dictionary
MembersOf(value) ==
    IF value.k = "list" THEN value.v
    ELSE [ i \in 1..Len(value.v) |-> value.v[i][2] ]

RECURSIVE Sum(_)
Sum(ns) == IF ns = << >> THEN 0 ELSE Head(ns) + Sum(Tail(ns))

RECURSIVE ObjectCount(_)
\* the lists and dictionaries in a value, the value among them
ObjectCount(value) ==
    IF ~IsObject(value) THEN 0
    ELSE 1 + Sum([ i \in 1..Len(value.v) |-> ObjectCount(MembersOf(value)[i]) ])

RECURSIVE ObjectsOf(_, _)
\* the objects a value is built of when base objects exist already: those
\* of its members in their order, then the value itself
ObjectsOf(value, base) ==
    IF ~IsObject(value) THEN << >>
    ELSE LET members   == MembersOf(value)
             Base(i)   == base + Sum([ j \in 1..(i - 1) |-> ObjectCount(members[j]) ])
             Member(i) == IF IsObject(members[i])
                          THEN Ref(Base(i) + ObjectCount(members[i]))
                          ELSE members[i]
         IN  Concat([ i \in 1..Len(members) |-> ObjectsOf(members[i], Base(i)) ])
             \o << [k |-> value.k,
                    v |-> [ i \in 1..Len(members) |->
                              IF value.k = "list" THEN Member(i)
                              ELSE << value.v[i][1], Member(i) >> ]] >>

\* the value as the decoder or a literal builds it: every list and every
\* dictionary in it a new object
Alloc(h, value) ==
    [heap |-> h \o ObjectsOf(value, Len(h)),
     val  |-> IF IsObject(value) THEN Ref(Len(h) + ObjectCount(value)) ELSE value]

RECURSIVE Deref(_, _)
\* the value a reference stands for, the objects in it written out
Deref(h, x) ==
    IF ~IsRef(x) THEN x
    ELSE IF h[x.v].k = "list"
    THEN L([ i \in 1..Len(h[x.v].v) |-> Deref(h, h[x.v].v[i]) ])
    ELSE D([ i \in 1..Len(h[x.v].v) |->
               << h[x.v].v[i][1], Deref(h, h[x.v].v[i][2]) >> ])

RECURSIVE substitute_variables_with_mapping_at(_, _, _)
RECURSIVE SubstituteItemsAt(_, _, _, _)
RECURSIVE SubstitutePairsAt(_, _, _, _)

\* lines 148-161: the new list or dictionary, unless a member raised
NewSubstituted(kind, r) ==
    IF r.raised # None THEN [heap |-> r.heap, val |-> r.raised]
    ELSE NewObject(kind, r)

SubstituteItemsNext(a, rest, mapping, vals) ==
    IF a.val.k = "raise" THEN [heap |-> a.heap, vals |-> vals, raised |-> a.val]
    ELSE SubstituteItemsAt(a.heap, rest, mapping, Append(vals, a.val))

\* the list comprehension of lines 149-152
SubstituteItemsAt(h, items, mapping, vals) ==
    IF items = << >> THEN [heap |-> h, vals |-> vals, raised |-> None]
    ELSE SubstituteItemsNext(
             substitute_variables_with_mapping_at(h, Head(items), mapping),
             Tail(items), mapping, vals)

SubstitutePairsNext(a, eval_key, rest, mapping, vals) ==
    IF eval_key.k = "raise" THEN [heap |-> a.heap, vals |-> vals, raised |-> eval_key]
    ELSE IF a.val.k = "raise" THEN [heap |-> a.heap, vals |-> vals, raised |-> a.val]
    ELSE SubstitutePairsAt(a.heap, rest, mapping, DictSet(vals, eval_key, a.val))

\* the loop of lines 156-159
SubstitutePairsAt(h, pairs, mapping, vals) ==
    IF pairs = << >> THEN [heap |-> h, vals |-> vals, raised |-> None]
    ELSE SubstitutePairsNext(
             substitute_variables_with_mapping_at(h, Head(pairs)[2], mapping),
             substitute_variables_with_mapping(Head(pairs)[1], mapping),
             Tail(pairs), mapping, vals)

\* substitute_variables_with_mapping on what may be a reference: an empty
\* container is returned as it is (line 145), any other list or dictionary
\* is built anew; val is the result or the exception raised
substitute_variables_with_mapping_at(h, content, mapping) ==
    IF ~IsRef(content)
    THEN [heap |-> h, val |-> substitute_variables_with_mapping(content, mapping)]
    ELSE IF At(h, content) = << >> THEN [heap |-> h, val |-> content]
    ELSE IF IsListAt(h, content)
    THEN NewSubstituted("list", SubstituteItemsAt(h, At(h, content), mapping, << >>))
    ELSE NewSubstituted("dict", SubstitutePairsAt(h, At(h, content), mapping, << >>))

\* a call that raised, a call that returned: [heap, exc, val]
RaiseAt(h, exc) == [heap |-> h, exc |-> exc, val |-> None]

ReturnAt(h, val) == [heap |-> h, exc |-> "none", val |-> val]

\* lines 675-678: the Definition itself when no argument differs from its
\* parameter, a substituted copy of it otherwise
SubstitutedAt(a) ==
    IF a.val.k = "raise" THEN RaiseAt(a.heap, a.val.v) ELSE ReturnAt(a.heap, a.val)

SubstituteBlockAt(h, block, args_mapping) ==
    IF args_mapping = << >> THEN ReturnAt(h, block)
    ELSE SubstitutedAt(substitute_variables_with_mapping_at(h, block, args_mapping))

\* lines 663-678, block being the Definition found
BindArgsAt(h, block, call_args, def_args) ==
    IF Len(call_args) # Len(def_args) THEN RaiseAt(h, "ParamsError")
    ELSE SubstituteBlockAt(h, block, ArgsMapping(def_args, call_args, 1, << >>))

\* lines 662-678: _get_test_definition and what follows it
BlockOfAt(h, defs, name, ref_type, call_args) ==
    LET kind  == DictGet(At(h, defs), S(ref_type))
        block == IF IsDictAt(h, kind) THEN DictGet(At(h, kind), S(name)) ELSE None
    IN  IF ~TruthyAt(h, block)
        THEN RaiseAt(h, IF ref_type = << "a", "p", "i" >> THEN "ApiNotFound" ELSE "SuiteNotFound")
        ELSE BindArgsAt(h, block, call_args, DefArgs(Deref(h, block)))

BlockByMetaAt(h, defs, function_meta, ref_type) ==
    IF function_meta.exc # "none" THEN RaiseAt(h, function_meta.exc)
    ELSE BlockOfAt(h, defs, function_meta.func_name, ref_type, function_meta.args)

\* _get_block_by_name(ref_call, ref_type) on the store defs refers to
_get_block_by_name_at(h, defs, ref_call, ref_type) ==
    BlockByMetaAt(h, defs, parse_function_value(ref_call), ref_type)

\* a variant of ExtendList that extends the list of the Definition
ExtendDefinitionList(h, def_list, current_list) ==
    IF IsListAt(h, def_list)
    THEN [h EXCEPT ![def_list.v].v = @ \o IterAt(h, current_list)]
    ELSE h

\* current_list.extend(def_list), lines 721, 728, 735
ExtendList(h, def_list, current_list) ==
    [h EXCEPT ![current_list.v].v = @ \o IterAt(h, def_list)]

\* one of the three merges of lines 716-735; st is [heap, exc]
MergeListAt(st, current_block, field, def_list, current_list) ==
    IF st.exc # "none" THEN st
    ELSE IF ~TruthyAt(st.heap, def_list)
    THEN [st EXCEPT !.heap = SetItem(@, current_block, S(field), current_list)]
    ELSE IF ~TruthyAt(st.heap, current_list)
    THEN [st EXCEPT !.heap = SetItem(@, current_block, S(field), def_list)]
    ELSE IF ~IsListAt(st.heap, current_list)
    THEN [st EXCEPT !.exc = "AttributeError"]
    ELSE IF ~IsRef(def_list) /\ ~IsStr(def_list)
    THEN [st EXCEPT !.exc = "TypeError"]
    ELSE [st EXCEPT !.heap = SetItem(ExtendList(@, def_list, current_list),
                                     current_block, S(field), None)]

\* line 714: current_block.update(def_block)
UpdateBlock(h, def_block, current_block) ==
    [h EXCEPT ![current_block.v].v = DictUpdate(@, At(h, def_block))]

\* _override_block(def_block, current_block) on two dictionary objects:
\* [heap, exc]
_override_block_at(h, def_block, current_block) ==
    MergeListAt(
      MergeListAt(
        MergeListAt([heap |-> UpdateBlock(h, def_block, current_block),
                     exc |-> "none"],
                    current_block, << "p", "r", "e", "_", "c", "o", "m", "m", "a", "n", "d" >>,
                    DictGet(At(h, def_block), S(<< "p", "r", "e", "_", "c", "o", "m", "m", "a", "n", "d" >>)),
                    DictGet(At(h, current_block), S(<< "p", "r", "e", "_", "c", "o", "m", "m", "a", "n", "d" >>))),
        current_block, << "p", "o", "s", "t", "_", "c", "o", "m", "m", "a", "n", "d" >>,
        DictGet(At(h, def_block), S(<< "p", "o", "s", "t", "_", "c", "o", "m", "m", "a", "n", "d" >>)),
        DictGet(At(h, current_block), S(<< "p", "o", "s", "t", "_", "c", "o", "m", "m", "a", "n", "d" >>))),
      current_block, << "v", "e", "r", "i", "f", "y" >>,
      DictGet(At(h, def_block), S(<< "v", "e", "r", "i", "f", "y" >>)),
      DictGet(At(h, current_block), S(<< "v", "e", "r", "i", "f", "y" >>)))

(***************************************************************************)
(* load_file and load_dependencies on objects.  st is the testset being    *)
(* built and the heap: [heap, project, cases, name, exc].                  *)
(***************************************************************************)
\* the call raised: the heap as the call left it, and the exception
FailedAt(st, r) == [st EXCEPT !.heap = r.heap, !.exc = r.exc]

\* lines 577-579: the merged test_block joins the cases
AppendCaseAt(st, merged, test_block) ==
    IF merged.exc # "none" THEN FailedAt(st, merged)
    ELSE [st EXCEPT !.heap = merged.heap, !.cases = Append(@, test_block)]

\* lines 576-579
ApiCaseAt(st, def_block, test_block) ==
    IF def_block.exc # "none" THEN FailedAt(st, def_block)
    ELSE AppendCaseAt(st,
             _override_block_at(def_block.heap, def_block.val, test_block),
             test_block)

\* line 585: testset["cases"].extend(block["cases"])
ExtendCasesAt(st, cases) ==
    IF IsListAt(st.heap, cases) THEN [st EXCEPT !.cases = @ \o At(st.heap, cases)]
                                ELSE [st EXCEPT !.exc = "TypeError"]

\* lines 583-585
SuiteCaseAt(st, block) ==
    IF block.exc # "none" THEN FailedAt(st, block)
    ELSE IF ~HasKey(At(block.heap, block.val), S(<< "c", "a", "s", "e", "s" >>))
    THEN [st EXCEPT !.heap = block.heap, !.exc = "KeyError"]
    ELSE ExtendCasesAt([st EXCEPT !.heap = block.heap],
                       DictGet(At(block.heap, block.val), S(<< "c", "a", "s", "e", "s" >>)))

\* lines 574-588
CaseByReferenceAt(defs, test_block, st) ==
    IF HasKey(At(st.heap, test_block), S(<< "a", "p", "i" >>))
    THEN ApiCaseAt(st, _get_block_by_name_at(st.heap, defs,
                           DictGet(At(st.heap, test_block), S(<< "a", "p", "i" >>)), << "a", "p", "i" >>),
                   test_block)
    ELSE IF HasKey(At(st.heap, test_block), S(<< "s", "u", "i", "t", "e" >>))
    THEN SuiteCaseAt(st, _get_block_by_name_at(st.heap, defs,
                             DictGet(At(st.heap, test_block), S(<< "s", "u", "i", "t", "e" >>)),
                             << "s", "u", "i", "t", "e" >>))
    ELSE [st EXCEPT !.cases = Append(@, test_block)]

\* lines 568-588, "id" and "desc" being popped already
load_case_checked(defs, test_block, case_id, desc, st) ==
    IF ~TruthyAt(st.heap, case_id) THEN [st EXCEPT !.exc = "ModelFormatError"]
    ELSE IF ~IsStr(case_id) THEN [st EXCEPT !.exc = "TypeError"]
    ELSE IF ~IsCaseId(case_id.v) THEN [st EXCEPT !.exc = "ModelFormatError"]
    ELSE CaseByReferenceAt(defs, test_block,
             [st EXCEPT !.heap = SetItem(@, test_block, S(<< "n", "a", "m", "e" >>),
                                         CaseName(case_id, Deref(st.heap, desc)))])

\* lines 566-588: test_block.pop("id", ""), test_block.pop("desc", "")
load_case_at(defs, test_block, st) ==
    load_case_checked(defs, test_block,
        DictGetOr(At(st.heap, test_block), S(<< "i", "d" >>), S(<< >>)),
        DictGetOr(At(st.heap, test_block), S(<< "d", "e", "s", "c" >>), S(<< >>)),
        [st EXCEPT !.heap = DelItem(DelItem(@, test_block, S(<< "i", "d" >>)),
                                    test_block, S(<< "d", "e", "s", "c" >>))])

\* lines 558-591
load_file_entry_at(defs, key, test_block, st) ==
    IF ~IsDictAt(st.heap, test_block)
    THEN [st EXCEPT !.exc = "FileFormatError"]
    ELSE IF key = S(<< "p", "r", "o", "j", "e", "c", "t" >>)
    THEN [st EXCEPT
            !.project = DictUpdate(@, At(st.heap, test_block)),
            !.name = DictGetOr(At(st.heap, test_block), S(<< "m", "o", "d", "u", "l", "e" >>),
                               S(<< "D", "e", "f", "a", "u", "l", "t", " ", "T", "e", "s", "t", " ", "S", "e", "t" >>))]
    ELSE IF key = S(<< "c", "a", "s", "e" >>)
    THEN load_case_at(defs, test_block, st)
    ELSE st

\* lines 554-591: item.popitem() empties the entry
load_file_item_at(defs, item, st) ==
    IF ~IsDictAt(st.heap, item) \/ Len(At(st.heap, item)) # 1
    THEN [st EXCEPT !.exc = "FileFormatError"]
    ELSE load_file_entry_at(defs, At(st.heap, item)[1][1], At(st.heap, item)[1][2],
                            [st EXCEPT !.heap[item.v].v = << >>])

RECURSIVE load_file_loop_at(_, _, _)
load_file_loop_at(defs, items, st) ==
    IF items = << >> \/ st.exc # "none" THEN st
    ELSE load_file_loop_at(defs, Tail(items),
                           load_file_item_at(defs, Head(items), st))

\* lines 539-543: the testset before anything is read
EmptyTestSetAt(h, exc) ==
    [heap |-> h, project |-> << >>, cases |-> << >>, name |-> None, exc |-> exc]

\* the document is decoded into new objects and gone through
load_file_decoded(defs, a) ==
    load_file_loop_at(defs, IterAt(a.heap, a.val), EmptyTestSetAt(a.heap, "none"))

\* lines 550-591
load_file_cases_at(h, defs, test_cases) ==
    IF test_cases.exc # "none" THEN EmptyTestSetAt(h, test_cases.exc)
    ELSE load_file_decoded(defs, Alloc(h, test_cases.val))

\* the testset dictionary with its project dictionary and its list of cases
TestSetOf(yaml_file, st, project, cases) ==
    NewObject("dict",
        [heap |-> cases.heap,
         vals |-> << << S(<< "f", "i", "l", "e", "_", "p", "a", "t", "h" >>), S(yaml_file) >>,
                     << S(<< "p", "r", "o", "j", "e", "c", "t" >>), project >>,
                     << S(<< "c", "a", "s", "e", "s" >>), cases.val >> >>
                  \o IF st.name = None THEN << >>
                                       ELSE << << S(<< "n", "a", "m", "e" >>), st.name >> >>])

TestSetWith(yaml_file, st, project) ==
    TestSetOf(yaml_file, st, project.val,
              NewObject("list", [heap |-> project.heap, vals |-> st.cases]))

TestSetAt(yaml_file, st) ==
    TestSetWith(yaml_file, st,
                NewObject("dict", [heap |-> st.heap, vals |-> st.project]))

\* lines 593-596: [heap, exc, val, caught]
load_file_returned(st, testset) ==
    [heap |-> testset.heap, exc |-> "none", val |-> testset.val, caught |-> st.exc]

load_file_return_at(yaml_file, st) ==
    load_file_returned(st, TestSetAt(yaml_file, st))

\* load_file(yaml_file) on the heap h and the store defs refers to
load_file_at(os, h, defs, yaml_file) ==
    IF ~isfile(os, yaml_file)
    THEN [heap |-> h, exc |-> "FileNotFoundError", val |-> None, caught |-> "none"]
    ELSE load_file_return_at(yaml_file,
             load_file_cases_at(h, defs, Yaml_load_file(os, yaml_file)))

\* overall_def_dict[ref_type][name] = block
StoreDefinitionAt(h, defs, ref_type, name, block) ==
    SetItem(h, DictGet(At(h, defs), S(ref_type)), S(name), block)

\* lines 528-530; st is [heap, exc]
StoreApiAt(defs, api_dict, name, meta) ==
    [heap |-> StoreDefinitionAt(
                  SetItem(meta.heap, api_dict, S(<< "f", "u", "n", "c", "t", "i", "o", "n", "_", "m", "e", "t", "a" >>), meta.val),
                  defs, << "a", "p", "i" >>, name, api_dict),
     exc |-> "none"]

\* lines 523-530: api_dict.pop("def"), parse_function
load_api_def(st, defs, api_dict, function_meta) ==
    IF function_meta.exc # "none" THEN [st EXCEPT !.exc = function_meta.exc]
    ELSE StoreApiAt(defs, api_dict, function_meta.func_name,
                    Alloc(DelItem(st.heap, api_dict, S(<< "d", "e", "f" >>)),
                          MetaDict(function_meta)))

\* lines 518-530, the entry being popped
load_api_entry(st, defs, key, api_dict) ==
    IF \/ key # S(<< "a", "p", "i" >>)
       \/ ~IsDictAt(st.heap, api_dict)
       \/ ~HasKey(At(st.heap, api_dict), S(<< "d", "e", "f" >>))
    THEN [st EXCEPT !.exc = "FileFormatError"]
    ELSE load_api_def(st, defs, api_dict,
             parse_function_value(DictGet(At(st.heap, api_dict), S(<< "d", "e", "f" >>))))

\* lines 515-530 for one entry of the file
load_api_item_at(defs, api_item, st) ==
    IF ~IsDictAt(st.heap, api_item) \/ Len(At(st.heap, api_item)) # 1
    THEN [st EXCEPT !.exc = "FileFormatError"]
    ELSE load_api_entry([st EXCEPT !.heap[api_item.v].v = << >>], defs,
                        At(st.heap, api_item)[1][1], At(st.heap, api_item)[1][2])

RECURSIVE load_api_items_at(_, _, _)
load_api_items_at(defs, api_items, st) ==
    IF api_items = << >> \/ st.exc # "none" THEN st
    ELSE load_api_items_at(defs, Tail(api_items),
                           load_api_item_at(defs, Head(api_items), st))

\* lines 511-530, a being the decoded document
load_api_decoded(defs, a) ==
    IF ~IsListAt(a.heap, a.val) THEN [heap |-> a.heap, exc |-> "FileFormatError"]
    ELSE load_api_items_at(defs, At(a.heap, a.val), [heap |-> a.heap, exc |-> "none"])

\* load_api_file(file_path): [heap, exc]
load_api_file_at(os, st, defs, file_path, api_items) ==
    IF api_items.exc # "none" THEN [st EXCEPT !.exc = api_items.exc]
    ELSE load_api_decoded(defs, Alloc(st.heap, api_items.val))

RECURSIVE load_api_files_at(_, _, _, _)
\* the loop of lines 490-491
load_api_files_at(os, defs, files, st) ==
    IF files = << >> \/ st.exc # "none" THEN st
    ELSE load_api_files_at(os, defs, Tail(files),
             load_api_file_at(os, st, defs, Head(files),
                              Yaml_load_file(os, Head(files))))

\* lines 499-502
StoreSuiteAt(defs, suite, name, meta) ==
    [heap |-> StoreDefinitionAt(
                  SetItem(meta.heap, suite, S(<< "f", "u", "n", "c", "t", "i", "o", "n", "_", "m", "e", "t", "a" >>), meta.val),
                  defs, << "s", "u", "i", "t", "e" >>, name, suite),
     exc |-> "none"]

load_suite_def(h, defs, suite, function_meta) ==
    IF function_meta.exc # "none" THEN [heap |-> h, exc |-> function_meta.exc]
    ELSE StoreSuiteAt(defs, suite, function_meta.func_name,
                      Alloc(h, MetaDict(function_meta)))

\* lines 496-502, project being suite["project"]
load_suite_project_at(h, defs, suite, project) ==
    IF ~HasKey(At(h, project), S(<< "d", "e", "f" >>))
    THEN [heap |-> h, exc |-> "ParamsError"]
    ELSE load_suite_def(h, defs, suite,
             parse_function_value(DictGet(At(h, project), S(<< "d", "e", "f" >>))))

\* lines 495-502, loaded being what load_file gave
load_suite_at(defs, loaded) ==
    IF loaded.exc # "none" THEN [heap |-> loaded.heap, exc |-> loaded.exc]
    ELSE load_suite_project_at(loaded.heap, defs, loaded.val,
             DictGet(At(loaded.heap, loaded.val), S(<< "p", "r", "o", "j", "e", "c", "t" >>)))

RECURSIVE load_suite_files_at(_, _, _, _)
\* the loop of lines 494-502
load_suite_files_at(os, defs, files, st) ==
    IF files = << >> \/ st.exc # "none" THEN st
    ELSE load_suite_files_at(os, defs, Tail(files),
             load_suite_at(defs, load_file_at(os, st.heap, defs, Head(files))))

\* lines 486-502
load_dependencies_in_at(os, h, defs, path, rank) ==
    load_suite_files_at(os, defs,
        InOrder(Yaml_load_folder_files(os, join(path, << "s", "u", "i", "t", "e" >>)), rank),
        load_api_files_at(os, defs,
            InOrder(Yaml_load_folder_files(os, join(path, << "a", "p", "i" >>)), rank),
            [heap |-> h, exc |-> "none"]))

\* load_dependencies(path_or_yamlfile): [heap, exc]
load_dependencies_at(os, h, defs, path_or_yamlfile, rank) ==
    load_dependencies_in_at(os, h, defs,
        IF isdir(os, path_or_yamlfile)
        THEN join(abspath(os.cwd, path_or_yamlfile), << "d", "e", "p", "e", "n", "d", "e", "n", "c", "i", "e", "s" >>)
        ELSE join(dirname(abspath(os.cwd, path_or_yamlfile)), << "d", "e", "p", "e", "n", "d", "e", "n", "c", "i", "e", "s" >>),
        rank)

(***************************************************************************)
(* SpecHeap: the dependencies and the case file are loaded, any number of  *)
(* times while the heap has room, with overall_def_dict the reference to   *)
(* the store object.                                                       *)
(***************************************************************************)
\* the objects the heap may grow to before no further call is made
MaxObjects == 64

LoadDependenciesAt(path_or_yamlfile, rank) ==
    LET r == load_dependencies_at(OS, heap, overall_def_dict, path_or_yamlfile, rank)
    IN  /\ Len(heap) < MaxObjects
        /\ heap' = r.heap
        /\ last' = [op |-> "load_dependencies", path |-> path_or_yamlfile,
                    exc |-> r.exc]
        /\ UNCHANGED << fs, cwd, overall_def_dict, testcases_cache_mapping,
                        parser, conf, input >>

LoadFileAt(yaml_file) ==
    LET r == load_file_at(OS, heap, overall_def_dict, yaml_file)
    IN  /\ Len(heap) < MaxObjects
        /\ heap' = r.heap
        /\ last' = [op |-> "load_file", yaml_file |-> yaml_file,
                    exc |-> r.exc, ret |-> r.val, caught |-> r.caught]
        /\ UNCHANGED << fs, cwd, overall_def_dict, testcases_cache_mapping,
                        parser, conf, input >>

\* the case documents: an entry of CaseEntries among plain cases
HeapDocs ==
    { L(PadCases(<< "a" >>, before) \o << entry >> \o PadCases(<< "b" >>, after)) :
        entry \in CaseEntries, before \in 0..MaxPad, after \in 0..MaxPad }

InitHeap ==
    \E data \in HeapDocs :
        /\ fs = [ p \in Dirs \cup Files |->
                    CASE p \in Dirs   -> Dir
                      [] p = ApiFile   -> File(ApiDoc)
                      [] p = SuiteFile -> File(SuiteDoc)
                      [] p = NoteFile  -> File(NoteDoc)
                      [] OTHER -> File(data) ]
        /\ cwd = CaseRoot
        /\ heap = Alloc(<< >>, EmptyDefs).heap
        /\ overall_def_dict = Alloc(<< >>, EmptyDefs).val
        /\ testcases_cache_mapping = << >>
        /\ parser = TestCaseParser(<< >>, << >>, None)
        /\ conf = [variables |-> << >>, functions |-> << >>]
        /\ input = NoInput
        /\ last = [op |-> "init"]

NextHeap ==
    \/ \E rank \in Ranks : LoadDependenciesAt(CaseRoot, rank)
    \/ LoadFileAt(CaseFile)

SpecHeap == InitHeap /\ [][NextHeap]_vars
(***************************************************************************)
(* Properties.                                                             *)
(***************************************************************************)
ListFields == { << "p", "r", "e", "_", "c", "o", "m", "m", "a", "n", "d" >>, << "p", "o", "s", "t", "_", "c", "o", "m", "m", "a", "n", "d" >>, << "v", "e", "r", "i", "f", "y" >> }

\* the last call was _override_block and it returned
Merged == last.op = "_override_block" /\ last.exc = "none"

\* C1: when _override_block merges a Definition into a case block, each of
\* pre_command, post_command and verify ends up as the list of the only
\* side that has it, or, when both sides have it, as the items of the case
\* followed by the items of the Definition.
MergedListsCaseThenDefinition ==
    Merged =>
        \A field \in ListFields :
            LET def_list  == DictGet(last.def_block.v, S(field))
                case_list == DictGet(last.current_block.v, S(field))
                merged    == DictGet(last.ret.v, S(field))
            IN  /\ (Truthy(def_list) /\ ~Truthy(case_list)) => merged = def_list
                /\ (~Truthy(def_list) /\ Truthy(case_list)) => merged = case_list
                /\ (Truthy(def_list) /\ Truthy(case_list)) =>
                       merged = L(case_list.v \o def_list.v)

Loaded == last.op = "load_file" /\ last.exc = "none" /\ last.caught = "none"

\* what the file of the last load_file holds
LoadedDoc == Node(OS, last.yaml_file).data

\* the cases of the testset the last load_file returned
LoadedCases == DictGet(last.ret.v, S(<< "c", "a", "s", "e", "s" >>)).v

\* the entry is a "case" with a block
IsCase(entry) ==
    /\ entry.k = "dict"
    /\ Len(entry.v) = 1
    /\ entry.v[1][1] = S(<< "c", "a", "s", "e" >>)
    /\ entry.v[1][2].k = "dict"

\* the entry is a case that refers to an api Definition
IsApiCase(entry) == IsCase(entry) /\ HasKey(entry.v[1][2].v, S(<< "a", "p", "i" >>))

\* the entry is a case that refers to a suite Definition and to no api
IsSuiteCase(entry) ==
    /\ IsCase(entry)
    /\ ~HasKey(entry.v[1][2].v, S(<< "a", "p", "i" >>))
    /\ HasKey(entry.v[1][2].v, S(<< "s", "u", "i", "t", "e" >>))

\* the entry is a case that refers to nothing and has its steps
IsPlainCase(entry) ==
    /\ IsCase(entry)
    /\ ~HasKey(entry.v[1][2].v, S(<< "a", "p", "i" >>))
    /\ ~HasKey(entry.v[1][2].v, S(<< "s", "u", "i", "t", "e" >>))
    /\ HasKey(entry.v[1][2].v, S(<< "s", "t", "e", "p", "s" >>))

\* the Definition the reference of the entry resolves to
Resolved(entry, ref_type) ==
    _get_block_by_name(overall_def_dict,
                       DictGet(entry.v[1][2].v, S(ref_type)), ref_type).val

\* C3: in the merged case load_file appends for a case with an api
\* reference, a field the case sets itself and the Definition has too keeps
\* the value of the case.
CaseFieldsKeepPriority ==
    (Loaded /\ LoadedDoc.k = "list"
            /\ \A i \in 1..Len(LoadedDoc.v) :
                  IsApiCase(LoadedDoc.v[i]) \/ IsPlainCase(LoadedDoc.v[i])) =>
        \A i \in 1..Len(LoadedDoc.v) :
            IsApiCase(LoadedDoc.v[i]) =>
                LET block == LoadedDoc.v[i].v[1][2].v
                IN  \A j \in 1..Len(block) :
                        (/\ block[j][1].v \notin { << "i", "d" >>, << "d", "e", "s", "c" >> }
                         /\ HasKey(Resolved(LoadedDoc.v[i], << "a", "p", "i" >>).v, block[j][1]))
                        => DictGet(LoadedCases[i].v, block[j][1]) = block[j][2]

\* C4: load_file raises to its caller only for a path that is no existing
\* file, and then a file-not-found error; for an existing file, whatever it
\* holds, it returns a testset with its file_path, project and cases.
LoadFileRaisesOnlyNotFound ==
    last.op = "load_file" =>
        IF isfile(OS, last.yaml_file)
        THEN /\ last.exc = "none"
             /\ last.ret.k = "dict"
             /\ DictGet(last.ret.v, S(<< "f", "i", "l", "e", "_", "p", "a", "t", "h" >>)) = S(last.yaml_file)
             /\ DictGet(last.ret.v, S(<< "p", "r", "o", "j", "e", "c", "t" >>)).k = "dict"
             /\ DictGet(last.ret.v, S(<< "c", "a", "s", "e", "s" >>)).k = "list"
        ELSE /\ last.exc = "FileNotFoundError"
             /\ last.ret = None

\* C4 as the specification states it: load_file never raises, for any path, an absent
\* one included, and returns a testset.
LoadFileNeverRaises ==
    last.op = "load_file" => (last.exc = "none" /\ last.ret.k = "dict")

\* an error was caught on the way and the testset returned holds the cases
\* read before it
LoadedPartially ==
    /\ last.op = "load_file"
    /\ last.exc = "none"
    /\ last.caught # "none"
    /\ DictGet(last.ret.v, S(<< "c", "a", "s", "e", "s" >>)).v # << >>

\* the parameters the documents declare for the Definition
Declared(name, ref_type) ==
    IF ref_type = << "a", "p", "i" >> THEN ApiParams(name) ELSE SuiteParams

\* the Definition Store holds a Definition of this kind and name
Defined(name, ref_type) ==
    Truthy(DictGet(DictGetOr(overall_def_dict.v, S(ref_type), D(<< >>)).v, S(name)))

\* C5: resolving a reference to a stored Definition fails with ParamsError
\* and gives no block exactly when the number of positional arguments
\* differs from the number of declared parameters, more or fewer, whatever
\* the keyword arguments.
ArityChecked ==
    (last.op = "_get_block_by_name" /\ Defined(input.name, last.ref_type)) =>
        IF Len(input.args) # Len(Declared(input.name, last.ref_type))
        THEN last.exc = "ParamsError" /\ last.ret = None
        ELSE last.exc # "ParamsError"

\* the Definition of two parameters called with three positional arguments
ThreeArgsForTwoParams ==
    /\ last.op = "_get_block_by_name"
    /\ Defined(input.name, last.ref_type)
    /\ Len(Declared(input.name, last.ref_type)) = 2
    /\ Len(input.args) = 3
    /\ last.exc = "ParamsError"

\* the absolute path load_files makes of a path
Resolve(path) == IF path # << >> /\ path[1] = "/" THEN path ELSE cwd \o << "/" >> \o path

\* C6: what testcases_cache_mapping holds for a path it holds for good,
\* and a load_files call for a path it holds returns what it holds without
\* going to the file system, whatever was written, removed or defined since.
CachedForGood ==
    [][ /\ \A i \in 1..Len(testcases_cache_mapping) :
              /\ HasKey(testcases_cache_mapping', testcases_cache_mapping[i][1])
              /\ DictGet(testcases_cache_mapping', testcases_cache_mapping[i][1])
                    = testcases_cache_mapping[i][2]
        /\ (/\ last'.op = "load_files"
            /\ last'.path.k = "str"
            /\ HasKey(testcases_cache_mapping, S(Resolve(last'.path.v))))
           => /\ last'.ret = DictGet(testcases_cache_mapping,
                                    S(Resolve(last'.path.v))).v
              /\ last'.reads = 0
      ]_vars

\* the case file is gone and load_files still returns its testset
StaleTestsetReturned ==
    /\ last.op = "load_files"
    /\ last.path = S(CaseFile)
    /\ last.reads = 0
    /\ last.ret # << >>
    /\ fs[CaseFile] = Absent

\* C7: when the file holds one case with a suite reference among plain
\* cases, the cases of the resolved suite stand in the testset where the
\* reference stood, all of them and in their order, between the cases of
\* the entries before and after it, and no case of the testset is the
\* referring block.
SuiteCasesSpliced ==
    (Loaded /\ LoadedDoc.k = "list") =>
        \A i \in 1..Len(LoadedDoc.v) :
            (/\ IsSuiteCase(LoadedDoc.v[i])
             /\ \A j \in 1..Len(LoadedDoc.v) : j # i => IsPlainCase(LoadedDoc.v[j]))
            =>
            LET suite == DictGet(Resolved(LoadedDoc.v[i], << "s", "u", "i", "t", "e" >>).v, S(<< "c", "a", "s", "e", "s" >>)).v
                steps(entry) == DictGet(entry.v[1][2].v, S(<< "s", "t", "e", "p", "s" >>))
            IN  /\ Len(LoadedCases) = Len(LoadedDoc.v) - 1 + Len(suite)
                /\ \A j \in 1..(i - 1) :
                      DictGet(LoadedCases[j].v, S(<< "s", "t", "e", "p", "s" >>)) = steps(LoadedDoc.v[j])
                /\ \A j \in 1..Len(suite) : LoadedCases[i - 1 + j] = suite[j]
                /\ \A j \in (i + 1)..Len(LoadedDoc.v) :
                      DictGet(LoadedCases[Len(suite) - 1 + j].v, S(<< "s", "t", "e", "p", "s" >>))
                          = steps(LoadedDoc.v[j])
                /\ \A j \in 1..Len(LoadedCases) :
                      ~HasKey(LoadedCases[j].v, S(<< "s", "u", "i", "t", "e" >>))
                /\ Len(suite) = 2
                /\ HasKey(suite[1].v, S(<< "s", "t", "e", "p", "s" >>))
                /\ HasKey(suite[2].v, S(<< "u", "r", "l" >>))

\* the two cases of the suite stand between a case before and a case after
SuiteBetweenCases ==
    /\ Loaded
    /\ LoadedDoc.k = "list"
    /\ Len(LoadedDoc.v) = 3
    /\ IsPlainCase(LoadedDoc.v[1])
    /\ IsSuiteCase(LoadedDoc.v[2])
    /\ IsPlainCase(LoadedDoc.v[3])
    /\ Len(LoadedCases) = 4

\* the last call was eval_content_with_bind_actions
Evaluated == last.op = "eval_content_with_bind_actions"

\* the last call was eval_content_with_bind_actions on a string without "$"
EvaluatedPlainString ==
    /\ Evaluated
    /\ IsStr(last.content)
    /\ \A i \in 1..Len(last.content.v) : last.content.v[i] # "$"

\* t is s without the spaces it begins and ends with
Trimmed(s, t) ==
    \E i \in 1..(Len(s) + 1), j \in 0..Len(s) :
        /\ t = [ k \in 1..(j - i + 1) |-> s[i + k - 1] ]
        /\ \A k \in 1..Len(s) : (k < i \/ k > j) => s[k] = " "
        /\ t # << >> => (t[1] # " " /\ t[Len(t)] # " ")

\* C8: for a string without "$", eval_content_with_bind_actions returns,
\* under every binding table, the string without the whitespace it begins
\* and ends with, and raises nothing.
PlainStringStripped ==
    EvaluatedPlainString =>
        /\ last.exc = NoExc
        /\ IsStr(last.ret)
        /\ Trimmed(last.content.v, last.ret.v)

\* C8 as the specification states it: a string without "$" is returned unchanged.
PlainStringUnchanged ==
    EvaluatedPlainString => (last.exc = NoExc /\ last.ret = last.content)

\* a string that begins with a space was evaluated by a parser that has
\* variables bound
StrippedUnderBindings ==
    /\ EvaluatedPlainString
    /\ last.content = S(<< " ", "a" >>)
    /\ last.ret = S(<< "a" >>)
    /\ parser.variables # << >>

\* the entries of the trace that are about the tokens of the leaf itself
OfLeaf(e, kind) == e.depth = 0 /\ e.kind = kind

\* the names of the variables looked up for the leaf itself, in order
LeafVariables ==
    LET lookups == SelectSeq(last.log,
                       LAMBDA e : OfLeaf(e, "variable") /\ e.ev = "lookup")
    IN  [ i \in 1..Len(lookups) |-> lookups[i].name ]

\* C9: in the evaluation of a string leaf, whatever is done for a function
\* token of the leaf comes before whatever is done for a variable token of
\* the leaf (the tokens inside the arguments of a function are leaves of
\* their own, evaluated for the call); the variables looked up are those
\* of the result of the function substitution, and none is looked up when
\* that result is no string.
FunctionsBeforeVariables ==
    (Evaluated /\ IsStr(last.content)) =>
        /\ \A i, j \in 1..Len(last.log) :
              (i < j /\ OfLeaf(last.log[i], "variable"))
              => ~OfLeaf(last.log[j], "function")
        /\ LET evaluated == _eval_content_functions(
                                parser, conf, StripContent(last.content), 0)
           IN  /\ evaluated.exc # NoExc =>
                     (last.exc = evaluated.exc /\ LeafVariables = << >>)
               /\ (evaluated.exc = NoExc /\ ~IsStr(evaluated.val)) =>
                     (last.ret = evaluated.val /\ LeafVariables = << >>)
               /\ (evaluated.exc = NoExc /\ last.exc = NoExc) =>
                     LeafVariables = extract_variables(evaluated.val)

\* a function token of the leaf was replaced and then a variable token of
\* the leaf looked up, the function having had a variable for argument
FunctionThenVariable ==
    /\ Evaluated
    /\ IsStr(last.content)
    /\ last.exc = NoExc
    /\ \E i, j, k \in 1..Len(last.log) :
          /\ i < j /\ j < k
          /\ last.log[i].depth = 1 /\ last.log[i].kind = "variable"
          /\ OfLeaf(last.log[j], "function") /\ last.log[j].ev = "replace"
          /\ OfLeaf(last.log[k], "variable") /\ last.log[k].ev = "lookup"

\* where the name is to be found: the binding table first, then the
\* configuration when the parser has a file path, else nowhere
Found(kind, name) ==
    LET bound == IF kind = "function" THEN parser.functions ELSE parser.variables
        other == IF kind = "function" THEN conf.functions ELSE conf.variables
    IN  IF HasKey(bound, S(name))
        THEN [src |-> "bind", val |-> DictGet(bound, S(name))]
        ELSE IF parser.file_path # None /\ HasKey(other, S(name))
        THEN [src |-> "conf", val |-> DictGet(other, S(name))]
        ELSE [src |-> "missing", val |-> None]

\* C10: every name looked up in an evaluation is taken from the explicit
\* bindings when they have it and from the fallback only when they have
\* not; a name that neither has ends the evaluation with a ParamsError that
\* names it; a content that is one variable token evaluates to the value
\* found that way.
UnresolvedNameFails ==
    Evaluated =>
        \A i \in 1..Len(last.log) :
            LET e == last.log[i]
            IN  e.ev = "lookup" =>
                  /\ e.src = Found(e.kind, e.name).src
                  /\ e.src = "missing" =>
                        /\ i = Len(last.log)
                        /\ last.exc = Exc("ParamsError", e.kind, e.name)
                  /\ (e.src # "missing" /\ last.content = S(<< "$" >> \o e.name)) =>
                        (last.exc = NoExc /\ last.ret = Found(e.kind, e.name).val)

\* a name neither the bindings nor the configuration has was looked up by a
\* parser that has bindings and a file path
UnresolvedAfterFallback ==
    /\ Evaluated
    /\ parser.file_path # None
    /\ parser.variables # << >>
    /\ last.exc = Exc("ParamsError", "variable", << "z" >>)


(***************************************************************************)
(* The block of a reference, read as the Definition body with every        *)
(* parameter replaced by its own argument in one pass.                     *)
(***************************************************************************)
\* the parameter, if any, whose name begins at position i of s
ParamAt(s, i, params) ==
    { j \in 1..Len(params) : params[j] # << >> /\ StartsAt(s, i, params[j]) }

RECURSIVE InstantiatedFrom(_, _, _, _)
\* s from position i on, every parameter name replaced by its own value
InstantiatedFrom(s, i, params, values) ==
    IF i > Len(s) THEN << >>
    ELSE IF ParamAt(s, i, params) # {}
         THEN LET j == CHOOSE j \in ParamAt(s, i, params) : TRUE
              IN  PyStr(values[j])
                    \o InstantiatedFrom(s, i + Len(params[j]), params, values)
         ELSE << s[i] >> \o InstantiatedFrom(s, i + 1, params, values)

RECURSIVE Instantiated(_, _, _)
RECURSIVE InstantiatedPairs(_, _, _, _)

\* the pairs of a dictionary, keys and values instantiated
InstantiatedPairs(pairs, params, values, acc) ==
    IF pairs = << >> THEN acc
    ELSE InstantiatedPairs(Tail(pairs), params, values,
            DictSet(acc, Instantiated(Head(pairs)[1], params, values),
                         Instantiated(Head(pairs)[2], params, values)))

\* a value in which every occurrence of every parameter, in keys, values
\* and list elements, stands replaced by the argument of that parameter
Instantiated(content, params, values) ==
    CASE content.k = "list" ->
            L([ i \in 1..Len(content.v) |->
                  Instantiated(content.v[i], params, values) ])
      [] content.k = "dict" ->
            D(InstantiatedPairs(content.v, params, values, << >>))
      [] content.k = "str" ->
            IF \E j \in 1..Len(params) : content.v = params[j]
            THEN values[CHOOSE j \in 1..Len(params) : content.v = params[j]]
            ELSE S(InstantiatedFrom(content.v, 1, params, values))
      [] OTHER -> content

\* the stored Definition the last reference names
StoredDefinition ==
    DictGet(DictGetOr(overall_def_dict.v, S(last.ref_type), D(<< >>)).v,
            S(input.name))

\* the values of the positional arguments of the reference
CallValues == [ i \in 1..Len(input.args) |-> parse_string_value(input.args[i]) ]

\* the last reference names a stored Definition with as many arguments as
\* the Definition has parameters
ResolvedWithArguments ==
    /\ last.op = "_get_block_by_name"
    /\ Defined(input.name, last.ref_type)
    /\ Len(input.args) = Len(Declared(input.name, last.ref_type))

\* C11: the block _get_block_by_name returns for a reference to a stored
\* Definition is the Definition body with every occurrence of each declared
\* parameter, in every key, value and list element, replaced by the
\* call-site value of that same parameter, for all call-site values.
ParametersReplacedByOwnValues ==
    ResolvedWithArguments =>
        /\ last.exc = "none"
        /\ last.ret = Instantiated(StoredDefinition,
                                   Declared(input.name, last.ref_type),
                                   CallValues)

\* the arguments are variable references no parameter name occurs in: the
\* block has them in place of the parameters
ArgumentsInPlace ==
    /\ ResolvedWithArguments
    /\ input.args = << << "$", "a" >>, << "$", "b" >> >>
    /\ last.exc = "none"
    /\ DictGet(last.ret.v, S(<< "s", "t", "e", "$", "b", "s" >>)) =
           L(<< S(<< "t", "y", "$", "b", "e", " ", "$", "a" >>), S(<< "t", "y", "$", "b", "e", " ", "$", "b" >>) >>)

\* the last call was load_dependencies and it returned
DependenciesLoaded == last.op = "load_dependencies" /\ last.exc = "none"

\* the suite Definition stored under the name
StoredSuite(name) ==
    DictGet(DictGetOr(overall_def_dict.v, S(<< "s", "u", "i", "t", "e" >>), D(<< >>)).v, S(name))

\* the cases of a stored suite Definition
SuiteCases(name) == DictGetOr(StoredSuite(name).v, S(<< "c", "a", "s", "e", "s" >>), L(<< >>)).v

\* the entries of the document of the suite t() after its project entry
OuterEntries == Tail(fs[OuterSuiteFile].data.v)

\* C12: after load_dependencies has finished, the suite Definition of a
\* document that refers to another suite holds that suite's cases in place
\* of the reference, between the cases of its own entries, whatever the
\* order in which the suite files were listed and loaded.
SuiteOfSuitesExpanded ==
    (DependenciesLoaded /\ OuterSuiteFile \in DOMAIN fs) =>
        /\ Truthy(StoredSuite(<< "s" >>))
        /\ Truthy(StoredSuite(<< "t" >>))
        /\ \A i \in 1..Len(OuterEntries) :
              IsSuiteCase(OuterEntries[i]) =>
                LET inner == DictGet(Resolved(OuterEntries[i], << "s", "u", "i", "t", "e" >>).v,
                                     S(<< "c", "a", "s", "e", "s" >>)).v
                IN  /\ Len(SuiteCases(<< "t" >>)) = Len(OuterEntries) - 1 + Len(inner)
                    /\ \A j \in 1..Len(inner) :
                          SuiteCases(<< "t" >>)[i - 1 + j] = inner[j]
                    /\ Len(inner) = 2

\* the suite s was listed and loaded first: t holds its two cases between
\* a case before and a case after
InnerSuiteLoadedFirst ==
    /\ DependenciesLoaded
    /\ OuterSuiteFile \in DOMAIN fs
    /\ Len(OuterEntries) = 3
    /\ IsSuiteCase(OuterEntries[2])
    /\ Len(SuiteCases(<< "t" >>)) = 4
    /\ HasKey(SuiteCases(<< "t" >>)[2].v, S(<< "s", "t", "e", "p", "s" >>))
    /\ HasKey(SuiteCases(<< "t" >>)[3].v, S(<< "u", "r", "l" >>))

\* the last call was load_file, it returned, and it had caught an error
LoadedWithError == last.op = "load_file" /\ last.exc = "none" /\ last.caught # "none"

\* the case is what load_file makes of the plain case entry: the block
\* without "id" and "desc", with a "name"
IsCaseOf(case, entry) ==
    /\ HasKey(case.v, S(<< "n", "a", "m", "e" >>))
    /\ DictDel(case.v, S(<< "n", "a", "m", "e" >>)) =
           DictDel(DictDel(entry.v[1][2].v, S(<< "i", "d" >>)), S(<< "d", "e", "s", "c" >>))

\* C13: when load_file has caught an error raised while entry k of the
\* document was processed (every entry before k being a plain case, which
\* raises nothing), the testset returned holds exactly the cases of the
\* entries before k, in document order, and nothing of entry k or of any
\* entry after it; a document that is no list of entries gives no case.
EntriesBeforeFailureKept ==
    LoadedWithError =>
        IF LoadedDoc.k # "list" \/ LoadedDoc.v = << >> THEN LoadedCases = << >>
        ELSE \E k \in 1..Len(LoadedDoc.v) :
                /\ \A j \in 1..(k - 1) : IsPlainCase(LoadedDoc.v[j])
                /\ ~IsPlainCase(LoadedDoc.v[k])
                /\ Len(LoadedCases) = k - 1
                /\ \A j \in 1..(k - 1) : IsCaseOf(LoadedCases[j], LoadedDoc.v[j])

\* an entry between two plain cases failed: the testset holds the first
\* case alone
FailedBetweenCases ==
    /\ LoadedWithError
    /\ LoadedDoc.k = "list"
    /\ Len(LoadedDoc.v) = 3
    /\ IsPlainCase(LoadedDoc.v[1])
    /\ ~IsPlainCase(LoadedDoc.v[2])
    /\ IsPlainCase(LoadedDoc.v[3])
    /\ Len(LoadedCases) = 1
    /\ IsCaseOf(LoadedCases[1], LoadedDoc.v[1])

\* the entry has one key, and it is neither "project" nor "case"
IsUnexpected(entry) ==
    /\ entry.k = "dict"
    /\ Len(entry.v) = 1
    /\ entry.v[1][1] \notin { S(<< "p", "r", "o", "j", "e", "c", "t" >>), S(<< "c", "a", "s", "e" >>) }

\* the last load_file read a list with an entry of an unexpected key at i
\* among plain cases
UnexpectedAt(i) ==
    /\ last.op = "load_file"
    /\ last.exc = "none"
    /\ LoadedDoc.k = "list"
    /\ i \in 1..Len(LoadedDoc.v)
    /\ IsUnexpected(LoadedDoc.v[i])
    /\ \A j \in 1..Len(LoadedDoc.v) : j # i => IsPlainCase(LoadedDoc.v[j])

\* the testset is what the document without its entry i gives: no project
\* metadata, no name, the cases of the other entries in their order
LoadedWithout(i) ==
    /\ last.caught = "none"
    /\ DictGet(last.ret.v, S(<< "p", "r", "o", "j", "e", "c", "t" >>)) = D(<< >>)
    /\ ~HasKey(last.ret.v, S(<< "n", "a", "m", "e" >>))
    /\ Len(LoadedCases) = Len(LoadedDoc.v) - 1
    /\ \A j \in 1..(i - 1) : IsCaseOf(LoadedCases[j], LoadedDoc.v[j])
    /\ \A j \in (i + 1)..Len(LoadedDoc.v) :
          IsCaseOf(LoadedCases[j - 1], LoadedDoc.v[j])

\* C15: in load_file, a single-key entry whose key is neither "project"
\* nor "case" and whose value is a mapping is ignored: it changes neither
\* the project metadata nor the case list, and the entries after it are
\* processed; when its value is no mapping, load_file catches a
\* FileFormatError there and returns the cases of the entries before it.
UnexpectedMappingIgnored ==
    \A i \in 1..(2 * MaxPad + 1) :
        UnexpectedAt(i) =>
            IF LoadedDoc.v[i].v[1][2].k = "dict"
            THEN LoadedWithout(i)
            ELSE /\ last.caught = "FileFormatError"
                 /\ Len(LoadedCases) = i - 1
                 /\ \A j \in 1..(i - 1) : IsCaseOf(LoadedCases[j], LoadedDoc.v[j])

\* C15 as the specification states it: the entry is ignored whatever its
\* value.
UnexpectedKeyIgnored ==
    \A i \in 1..(2 * MaxPad + 1) : UnexpectedAt(i) => LoadedWithout(i)

\* an entry of an unexpected key with a mapping stood between two plain
\* cases, and both are in the testset
UnexpectedBetweenCases ==
    /\ UnexpectedAt(2)
    /\ Len(LoadedDoc.v) = 3
    /\ LoadedDoc.v[2].v[1][2].k = "dict"
    /\ Len(LoadedCases) = 2
    /\ last.caught = "none"

\* the store as a value: every Definition with its lists written out
StoreValue == Deref(heap, overall_def_dict)

\* the calls on objects give what the calls on values give
ObjectsAgreeWithValues ==
    [][ /\ last'.op = "load_file" =>
              LET r == load_file(OS, StoreValue, last'.yaml_file)
              IN  /\ last'.exc = r.exc
                  /\ last'.caught = r.caught
                  /\ Deref(heap', last'.ret) = r.val
        /\ last'.op = "load_dependencies" =>
              \E rank \in Ranks :
                  LET r == load_dependencies(OS, StoreValue, last'.path, rank)
                  IN  /\ last'.exc = r.exc
                      /\ Deref(heap', overall_def_dict') = r.defs ]_vars

\* the object of the api Definition stored under the name, or None
StoredApiAt(name) ==
    DictGet(At(heap, DictGet(At(heap, overall_def_dict), S(<< "a", "p", "i" >>))), S(name))

\* C14: a load_file call, whatever api and suite references it resolves
\* (with or without renamed arguments, with or without merged lists),
\* leaves every Definition of the Definition Store, with its pre_command,
\* post_command and verify lists and its list of cases, equal to what it
\* was before the call, hence to what load_dependencies left.
DefinitionsKeptByLoadFile ==
    [][ last'.op = "load_file" =>
            /\ overall_def_dict' = overall_def_dict
            /\ Deref(heap', overall_def_dict') = StoreValue ]_vars

\* load_file has merged a case that has its own pre_command into the
\* Definition full(), resolved without renaming: the case in the testset
\* holds the very steps list of the Definition, its own list was extended
\* in place, and the stored Definition has its pre_command as it was
MergedCaseSharesDefinition ==
    /\ last.op = "load_file"
    /\ last.exc = "none"
    /\ last.caught = "none"
    /\ IsRef(StoredApiAt(<< "f", "u", "l", "l" >>))
    /\ Deref(heap, DictGet(At(heap, StoredApiAt(<< "f", "u", "l", "l" >>)), S(<< "p", "r", "e", "_", "c", "o", "m", "m", "a", "n", "d" >>)))
           = ListOf(<< "d", "p", "r", "e" >>, MaxListLen)
    /\ \E i \in 1..Len(At(heap, DictGet(At(heap, last.ret), S(<< "c", "a", "s", "e", "s" >>)))) :
          LET case == At(heap, DictGet(At(heap, last.ret), S(<< "c", "a", "s", "e", "s" >>)))[i]
          IN  /\ IsRef(DictGet(At(heap, case), S(<< "s", "t", "e", "p", "s" >>)))
              /\ DictGet(At(heap, case), S(<< "s", "t", "e", "p", "s" >>))
                     = DictGet(At(heap, StoredApiAt(<< "f", "u", "l", "l" >>)), S(<< "s", "t", "e", "p", "s" >>))
              /\ HasKey(At(heap, case), S(<< "p", "r", "e", "_", "c", "o", "m", "m", "a", "n", "d" >>))
              /\ DictGet(At(heap, case), S(<< "p", "r", "e", "_", "c", "o", "m", "m", "a", "n", "d" >>)) = None
=============================================================================
